---- MODULE Spec2Model ----
(* The retrying CRUD facade of database/base_repository.py over the incidents *)
(* table: the generic repository (raw_* operations), the retry loop of every  *)
(* facade operation, the unique-id generation loop, the failure sink and the  *)
(* table's declared constraints.                                              *)
EXTENDS Integers, Sequences, FiniteSets, TLC

VARIABLES
  model,          \* class attribute `model`: "IncidentModel" or "None" (unconfigured)
  field_id,       \* class attribute `field_id`: "id" or "None" (unconfigured)
  count_attemps,  \* class attribute `count_attemps`
  store,          \* committed rows of the incidents table, in table order
  id_seq,         \* last value handed out by the serial sequence of incidents.id
  lock,           \* class attribute `lock` of IncidentRepository: unlocked or locked
  clock,          \* the time of the table: ticks once per committed insert; datetime.now gives an INSERT the next tick
  task            \* one record per caller: its position in a facade call

vars == <<model, field_id, count_attemps, store, id_seq, lock, clock, task>>

\* ---------------------------------------------------------------- bounds
MaxAttempts == 2
MaxRows == 4
MaxId == 2
MaxSerial == 3
MaxDraws == 4
MaxLen == 3
MaxTable == 3
PoolSize == 1

\* ---------------------------------------------------------------- values
None == "None"
\* asyncio.Lock() as constructed: not held
Unlocked == "unlocked"
NoInt == 0 - 1

FieldNames == {"id", "description", "status", "source", "creating_date"}
IncidentStatusEnum == <<"new", "in_progress", "resolved", "closed", "canceled">>
Row(i, d, st, so, cd) ==
  [id |-> i, description |-> d, status |-> st, source |-> so, creating_date |-> cd]

\* a dict payload: the keys it carries and their values
Dict(keys, v) == [fields |-> keys, v |-> v]
NoData == Dict({}, Row(0, None, None, None, 0))

\* a filter expression Model.field <cmp> value
Filter(f, c, v) == [field |-> f, cmp |-> c, value |-> v]

\* what a call hands back: None, one row, a list of rows, a row count, an id
\* (n and e: the number n * 10^e; s: the text of a str id, or the name of a
\* float that is no number)
Result(k, rows, n, s) == [kind |-> k, rows |-> rows, n |-> n, s |-> s, e |-> 0]
RNone == Result("None", <<>>, 0, <<>>)
ROne(r) == Result("row", <<r>>, 0, <<>>)
RList(rows) == Result("list", rows, 0, <<>>)
RCount(n) == Result("rowcount", <<>>, n, <<>>)

NoExc == [kind |-> "none", attempt |-> NoInt]
Exc(k, a) == [kind |-> k, attempt |-> a]

\* outcome of one raw_* call: the exception it raised (or "none"), the table
\* after it, and the value it returned
Outcome(k, rows, ret) == [raised |-> k, store |-> rows, ret |-> ret]

\* ---------------------------------------------------------------- table constraints
UniqueViolationOff(rows) == FALSE

\* id = Column(Integer, unique=True, primary_key=True)
UniqueViolation(rows) ==
  \E i, j \in DOMAIN rows : i # j /\ rows[i].id = rows[j].id

\* nullable=False on description, status, source, creating_date
NotNullViolation(rows) ==
  \E i \in DOMAIN rows :
    \/ rows[i].description = None
    \/ rows[i].status = None
    \/ rows[i].source = None
    \/ rows[i].creating_date = NoInt

ConstraintViolation(rows) == UniqueViolation(rows) \/ NotNullViolation(rows)

\* ---------------------------------------------------------------- filters
Compare(x, c, v) ==
  CASE c = "==" -> x = v
    [] c = ">=" -> x >= v
    [] c = "<=" -> x <= v

MatchesAny(r, filters) ==
  \E k \in DOMAIN filters : Compare(r[filters[k].field], filters[k].cmp, filters[k].value)

\* and_(*filters): every filter holds of the row
Matches(r, filters) ==
  \A k \in DOMAIN filters : Compare(r[filters[k].field], filters[k].cmp, filters[k].value)

\* `if filters:` - an empty list adds no WHERE clause
Where(rows, filters) ==
  IF filters = <<>> THEN rows ELSE SelectSeq(rows, LAMBDA r : Matches(r, filters))

IdIs(i) == <<Filter("id", "==", i)>>

\* the identifiers the rows of a table have
Ids(rows) == {rows[k].id : k \in DOMAIN rows}

\* ---------------------------------------------------------------- ordering
RECURSIVE IndexOf(_, _, _)
IndexOf(seq, x, k) ==
  IF k > Len(seq) THEN 0 ELSE IF seq[k] = x THEN k ELSE IndexOf(seq, x, k + 1)

\* the texts rows carry in description and source, in the order ORDER BY
\* gives them
TextOrder == <<"a", "api", "b", "monitoring", "x", "y">>

\* the value ORDER BY compares: integers and dates as they are, the status enum
\* by its declaration order, a text by its place among the texts
SortKey(r, col) ==
  CASE col = "status" -> IndexOf(IncidentStatusEnum, r.status, 1)
    [] col \in {"description", "source"} -> IndexOf(TextOrder, r[col], 1)
    [] OTHER -> r[col]

RECURSIVE InsertAsc(_, _, _)
InsertAsc(sorted, r, col) ==
  IF sorted = <<>> THEN <<r>>
  ELSE IF SortKey(r, col) < SortKey(Head(sorted), col) THEN <<r>> \o sorted
  ELSE <<Head(sorted)>> \o InsertAsc(Tail(sorted), r, col)

RECURSIVE OrderAsc(_, _)
OrderAsc(rows, col) ==
  IF rows = <<>> THEN <<>>
  ELSE InsertAsc(OrderAsc(SubSeq(rows, 1, Len(rows) - 1), col), rows[Len(rows)], col)

Reverse(s) == [k \in 1 .. Len(s) |-> s[Len(s) + 1 - k]]

OrderByAscOnly(rows, col, sort_order) == OrderAsc(rows, col)

\* sort_order.lower() == "desc": the spellings of desc in either case
LowerIsDesc(sort_order) ==
  sort_order \in {"desc", "Desc", "dEsc", "deSc", "desC", "DEsc", "DeSc", "DesC",
                  "dESc", "dEsC", "deSC", "DESc", "DEsC", "DeSC", "dESC", "DESC"}

\* order_by(desc(column)) or order_by(asc(column)); rows of equal key stay in
\* the order the scan gave them
OrderBy(rows, col, sort_order) ==
  IF LowerIsDesc(sort_order) THEN Reverse(OrderAsc(Reverse(rows), col)) ELSE OrderAsc(rows, col)

Min(a, b) == IF a < b THEN a ELSE b

\* ---------------------------------------------------------------- raw_* operations
NewRowFixedSource(data, seq, now) ==
  Row(IF "id" \in data.fields THEN data.v.id ELSE seq + 1,
      IF "description" \in data.fields THEN data.v.description ELSE None,
      IF "status" \in data.fields THEN data.v.status ELSE None,
      "monitoring",
      now)

\* u = cls.model(**data); session.add(u); commit; the row as the table holds it
NewRow(data, seq, now) ==
  Row(IF "id" \in data.fields THEN data.v.id ELSE seq + 1,
      IF "description" \in data.fields THEN data.v.description ELSE None,
      IF "status" \in data.fields THEN data.v.status ELSE None,
      IF "source" \in data.fields THEN data.v.source ELSE None,
      IF "creating_date" \in data.fields THEN data.v.creating_date ELSE now)

\* the serial default of the primary key: a value is taken from the sequence
\* whenever the payload carries no id, also when the insert then fails
NextSerial(seq, data) == IF "id" \in data.fields THEN seq ELSE seq + 1

raw_create(rows, seq, data, now) ==
  LET u == NewRow(data, seq, now)
      rows2 == Append(rows, u)
  IN IF ConstraintViolation(rows2)
     THEN Outcome("StoreError", rows, RNone)
     ELSE Outcome("none", rows2, ROne(u))

raw_get_or_raise(rows, filter_) ==
  LET m == Where(rows, filter_)
  IN IF m = <<>> THEN Outcome("NotFound", rows, RNone) ELSE Outcome("none", rows, ROne(m[1]))

raw_get_consuming(rows, filter_) ==
  LET m == Where(rows, filter_)
  IN Outcome("none", SelectSeq(rows, LAMBDA r : ~Matches(r, filter_)),
             IF m = <<>> THEN RNone ELSE ROne(m[1]))

\* session.scalar(select(model).filter(filter_)): the first matching row or None
raw_get(rows, filter_) ==
  LET m == Where(rows, filter_)
  IN Outcome("none", rows, IF m = <<>> THEN RNone ELSE ROne(m[1]))

raw_get_all(rows) == Outcome("none", rows, RList(rows))

raw_get_all_with_filters_strict(rows, filters, sort_by, sort_order, limit, offset) ==
  IF sort_by # None /\ sort_by \notin FieldNames
  THEN Outcome("ProgrammingError", rows, RNone)
  ELSE Outcome("none", rows, RList(Where(rows, filters)))

raw_get_all_with_filters(rows, filters, sort_by, sort_order, limit, offset) ==
  LET filtered == Where(rows, filters)
      ordered == IF sort_by # None /\ sort_by \in FieldNames
                 THEN OrderBy(filtered, sort_by, sort_order)
                 ELSE filtered
      from == IF offset = NoInt THEN 1 ELSE offset + 1
      upto == IF limit = NoInt THEN Len(ordered) ELSE Min(Len(ordered), from + limit - 1)
  IN Outcome("none", rows, RList(SubSeq(ordered, from, upto)))

\* query.values(data): the named columns take the payload's values
Assign(r, data) ==
  Row(IF "id" \in data.fields THEN data.v.id ELSE r.id,
      IF "description" \in data.fields THEN data.v.description ELSE r.description,
      IF "status" \in data.fields THEN data.v.status ELSE r.status,
      IF "source" \in data.fields THEN data.v.source ELSE r.source,
      IF "creating_date" \in data.fields THEN data.v.creating_date ELSE r.creating_date)

raw_update_with_filters_all(rows, data, filters) ==
  Outcome("none", [k \in DOMAIN rows |-> Assign(rows[k], data)], RCount(Len(Where(rows, filters))))

raw_update_with_filters(rows, data, filters) ==
  LET hit == Where(rows, filters)
      rows2 == [k \in DOMAIN rows |->
                  IF filters = <<>> \/ Matches(rows[k], filters)
                  THEN Assign(rows[k], data) ELSE rows[k]]
  IN IF ConstraintViolation(rows2)
     THEN Outcome("StoreError", rows, RNone)
     ELSE Outcome("none", rows2, RCount(Len(hit)))

raw_delete_with_filters_total(rows, filters) ==
  Outcome("none", IF filters = <<>> THEN <<>> ELSE SelectSeq(rows, LAMBDA r : ~Matches(r, filters)),
          RCount(Len(rows)))

raw_delete_with_filters(rows, filters) ==
  LET hit == Where(rows, filters)
      rows2 == IF filters = <<>> THEN <<>>
               ELSE SelectSeq(rows, LAMBDA r : ~Matches(r, filters))
  IN Outcome("none", rows2, RCount(Len(hit)))

raw_update_uncommitted(rows, data, filter_) ==
  Outcome("none", rows, RCount(Len(SelectSeq(rows, LAMBDA r : Matches(r, filter_)))))

raw_update_every_row(rows, data, filter_) ==
  Outcome("none", [k \in DOMAIN rows |-> Assign(rows[k], data)],
          RCount(Len(SelectSeq(rows, LAMBDA r : Matches(r, filter_)))))

raw_update(rows, data, filter_) ==
  LET rows2 == [k \in DOMAIN rows |->
                  IF Matches(rows[k], filter_) THEN Assign(rows[k], data) ELSE rows[k]]
  IN IF ConstraintViolation(rows2)
     THEN Outcome("StoreError", rows, RNone)
     ELSE Outcome("none", rows2, RCount(Len(SelectSeq(rows, LAMBDA r : Matches(r, filter_)))))

raw_delete_truncating(rows, filter_) ==
  Outcome("none", <<>>, RCount(Len(SelectSeq(rows, LAMBDA r : Matches(r, filter_)))))

raw_delete_soft(rows, filter_) ==
  Outcome("none", rows, RCount(Len(SelectSeq(rows, LAMBDA r : Matches(r, filter_)))))

raw_delete(rows, filter_) ==
  Outcome("none", SelectSeq(rows, LAMBDA r : ~Matches(r, filter_)),
          RCount(Len(SelectSeq(rows, LAMBDA r : Matches(r, filter_)))))

\* ---------------------------------------------------------------- id generation
\* string.digits, string.ascii_uppercase, string.ascii_lowercase
Digits == <<"0", "1", "2", "3", "4", "5", "6", "7", "8", "9">>
AsciiUppercase ==
  <<"A", "B", "C", "D", "E", "F", "G", "H", "I", "J", "K", "L", "M",
    "N", "O", "P", "Q", "R", "S", "T", "U", "V", "W", "X", "Y", "Z">>
AsciiLowercase ==
  <<"a", "b", "c", "d", "e", "f", "g", "h", "i", "j", "k", "l", "m",
    "n", "o", "p", "q", "r", "s", "t", "u", "v", "w", "x", "y", "z">>

\* the decimal digits int() and float() read (the characters of Unicode
\* category Nd, in the 14.0 database of the interpreter), by the digit they
\* stand for: zero first. A character outside ASCII is written by its Unicode
\* name
DecimalDigits ==
  <<{"0", "ARABIC-INDIC DIGIT ZERO", "EXTENDED ARABIC-INDIC DIGIT ZERO", "NKO DIGIT ZERO",
     "DEVANAGARI DIGIT ZERO", "BENGALI DIGIT ZERO", "GURMUKHI DIGIT ZERO",
     "GUJARATI DIGIT ZERO", "ORIYA DIGIT ZERO", "TAMIL DIGIT ZERO", "TELUGU DIGIT ZERO",
     "KANNADA DIGIT ZERO", "MALAYALAM DIGIT ZERO", "SINHALA LITH DIGIT ZERO", "THAI DIGIT ZERO",
     "LAO DIGIT ZERO", "TIBETAN DIGIT ZERO", "MYANMAR DIGIT ZERO", "MYANMAR SHAN DIGIT ZERO",
     "KHMER DIGIT ZERO", "MONGOLIAN DIGIT ZERO", "LIMBU DIGIT ZERO", "NEW TAI LUE DIGIT ZERO",
     "TAI THAM HORA DIGIT ZERO", "TAI THAM THAM DIGIT ZERO", "BALINESE DIGIT ZERO",
     "SUNDANESE DIGIT ZERO", "LEPCHA DIGIT ZERO", "OL CHIKI DIGIT ZERO", "VAI DIGIT ZERO",
     "SAURASHTRA DIGIT ZERO", "KAYAH LI DIGIT ZERO", "JAVANESE DIGIT ZERO",
     "MYANMAR TAI LAING DIGIT ZERO", "CHAM DIGIT ZERO", "MEETEI MAYEK DIGIT ZERO",
     "FULLWIDTH DIGIT ZERO", "OSMANYA DIGIT ZERO", "HANIFI ROHINGYA DIGIT ZERO",
     "BRAHMI DIGIT ZERO", "SORA SOMPENG DIGIT ZERO", "CHAKMA DIGIT ZERO", "SHARADA DIGIT ZERO",
     "KHUDAWADI DIGIT ZERO", "NEWA DIGIT ZERO", "TIRHUTA DIGIT ZERO", "MODI DIGIT ZERO",
     "TAKRI DIGIT ZERO", "AHOM DIGIT ZERO", "WARANG CITI DIGIT ZERO", "DIVES AKURU DIGIT ZERO",
     "BHAIKSUKI DIGIT ZERO", "MASARAM GONDI DIGIT ZERO", "GUNJALA GONDI DIGIT ZERO",
     "MRO DIGIT ZERO", "TANGSA DIGIT ZERO", "PAHAWH HMONG DIGIT ZERO",
     "MATHEMATICAL BOLD DIGIT ZERO", "MATHEMATICAL DOUBLE-STRUCK DIGIT ZERO",
     "MATHEMATICAL SANS-SERIF DIGIT ZERO", "MATHEMATICAL SANS-SERIF BOLD DIGIT ZERO",
     "MATHEMATICAL MONOSPACE DIGIT ZERO", "NYIAKENG PUACHUE HMONG DIGIT ZERO",
     "WANCHO DIGIT ZERO", "ADLAM DIGIT ZERO", "SEGMENTED DIGIT ZERO"},
    {"1", "ARABIC-INDIC DIGIT ONE", "EXTENDED ARABIC-INDIC DIGIT ONE", "NKO DIGIT ONE",
     "DEVANAGARI DIGIT ONE", "BENGALI DIGIT ONE", "GURMUKHI DIGIT ONE", "GUJARATI DIGIT ONE",
     "ORIYA DIGIT ONE", "TAMIL DIGIT ONE", "TELUGU DIGIT ONE", "KANNADA DIGIT ONE",
     "MALAYALAM DIGIT ONE", "SINHALA LITH DIGIT ONE", "THAI DIGIT ONE", "LAO DIGIT ONE",
     "TIBETAN DIGIT ONE", "MYANMAR DIGIT ONE", "MYANMAR SHAN DIGIT ONE", "KHMER DIGIT ONE",
     "MONGOLIAN DIGIT ONE", "LIMBU DIGIT ONE", "NEW TAI LUE DIGIT ONE",
     "TAI THAM HORA DIGIT ONE", "TAI THAM THAM DIGIT ONE", "BALINESE DIGIT ONE",
     "SUNDANESE DIGIT ONE", "LEPCHA DIGIT ONE", "OL CHIKI DIGIT ONE", "VAI DIGIT ONE",
     "SAURASHTRA DIGIT ONE", "KAYAH LI DIGIT ONE", "JAVANESE DIGIT ONE",
     "MYANMAR TAI LAING DIGIT ONE", "CHAM DIGIT ONE", "MEETEI MAYEK DIGIT ONE",
     "FULLWIDTH DIGIT ONE", "OSMANYA DIGIT ONE", "HANIFI ROHINGYA DIGIT ONE",
     "BRAHMI DIGIT ONE", "SORA SOMPENG DIGIT ONE", "CHAKMA DIGIT ONE", "SHARADA DIGIT ONE",
     "KHUDAWADI DIGIT ONE", "NEWA DIGIT ONE", "TIRHUTA DIGIT ONE", "MODI DIGIT ONE",
     "TAKRI DIGIT ONE", "AHOM DIGIT ONE", "WARANG CITI DIGIT ONE", "DIVES AKURU DIGIT ONE",
     "BHAIKSUKI DIGIT ONE", "MASARAM GONDI DIGIT ONE", "GUNJALA GONDI DIGIT ONE",
     "MRO DIGIT ONE", "TANGSA DIGIT ONE", "PAHAWH HMONG DIGIT ONE",
     "MATHEMATICAL BOLD DIGIT ONE", "MATHEMATICAL DOUBLE-STRUCK DIGIT ONE",
     "MATHEMATICAL SANS-SERIF DIGIT ONE", "MATHEMATICAL SANS-SERIF BOLD DIGIT ONE",
     "MATHEMATICAL MONOSPACE DIGIT ONE", "NYIAKENG PUACHUE HMONG DIGIT ONE", "WANCHO DIGIT ONE",
     "ADLAM DIGIT ONE", "SEGMENTED DIGIT ONE"},
    {"2", "ARABIC-INDIC DIGIT TWO", "EXTENDED ARABIC-INDIC DIGIT TWO", "NKO DIGIT TWO",
     "DEVANAGARI DIGIT TWO", "BENGALI DIGIT TWO", "GURMUKHI DIGIT TWO", "GUJARATI DIGIT TWO",
     "ORIYA DIGIT TWO", "TAMIL DIGIT TWO", "TELUGU DIGIT TWO", "KANNADA DIGIT TWO",
     "MALAYALAM DIGIT TWO", "SINHALA LITH DIGIT TWO", "THAI DIGIT TWO", "LAO DIGIT TWO",
     "TIBETAN DIGIT TWO", "MYANMAR DIGIT TWO", "MYANMAR SHAN DIGIT TWO", "KHMER DIGIT TWO",
     "MONGOLIAN DIGIT TWO", "LIMBU DIGIT TWO", "NEW TAI LUE DIGIT TWO",
     "TAI THAM HORA DIGIT TWO", "TAI THAM THAM DIGIT TWO", "BALINESE DIGIT TWO",
     "SUNDANESE DIGIT TWO", "LEPCHA DIGIT TWO", "OL CHIKI DIGIT TWO", "VAI DIGIT TWO",
     "SAURASHTRA DIGIT TWO", "KAYAH LI DIGIT TWO", "JAVANESE DIGIT TWO",
     "MYANMAR TAI LAING DIGIT TWO", "CHAM DIGIT TWO", "MEETEI MAYEK DIGIT TWO",
     "FULLWIDTH DIGIT TWO", "OSMANYA DIGIT TWO", "HANIFI ROHINGYA DIGIT TWO",
     "BRAHMI DIGIT TWO", "SORA SOMPENG DIGIT TWO", "CHAKMA DIGIT TWO", "SHARADA DIGIT TWO",
     "KHUDAWADI DIGIT TWO", "NEWA DIGIT TWO", "TIRHUTA DIGIT TWO", "MODI DIGIT TWO",
     "TAKRI DIGIT TWO", "AHOM DIGIT TWO", "WARANG CITI DIGIT TWO", "DIVES AKURU DIGIT TWO",
     "BHAIKSUKI DIGIT TWO", "MASARAM GONDI DIGIT TWO", "GUNJALA GONDI DIGIT TWO",
     "MRO DIGIT TWO", "TANGSA DIGIT TWO", "PAHAWH HMONG DIGIT TWO",
     "MATHEMATICAL BOLD DIGIT TWO", "MATHEMATICAL DOUBLE-STRUCK DIGIT TWO",
     "MATHEMATICAL SANS-SERIF DIGIT TWO", "MATHEMATICAL SANS-SERIF BOLD DIGIT TWO",
     "MATHEMATICAL MONOSPACE DIGIT TWO", "NYIAKENG PUACHUE HMONG DIGIT TWO", "WANCHO DIGIT TWO",
     "ADLAM DIGIT TWO", "SEGMENTED DIGIT TWO"},
    {"3", "ARABIC-INDIC DIGIT THREE", "EXTENDED ARABIC-INDIC DIGIT THREE", "NKO DIGIT THREE",
     "DEVANAGARI DIGIT THREE", "BENGALI DIGIT THREE", "GURMUKHI DIGIT THREE",
     "GUJARATI DIGIT THREE", "ORIYA DIGIT THREE", "TAMIL DIGIT THREE", "TELUGU DIGIT THREE",
     "KANNADA DIGIT THREE", "MALAYALAM DIGIT THREE", "SINHALA LITH DIGIT THREE",
     "THAI DIGIT THREE", "LAO DIGIT THREE", "TIBETAN DIGIT THREE", "MYANMAR DIGIT THREE",
     "MYANMAR SHAN DIGIT THREE", "KHMER DIGIT THREE", "MONGOLIAN DIGIT THREE",
     "LIMBU DIGIT THREE", "NEW TAI LUE DIGIT THREE", "TAI THAM HORA DIGIT THREE",
     "TAI THAM THAM DIGIT THREE", "BALINESE DIGIT THREE", "SUNDANESE DIGIT THREE",
     "LEPCHA DIGIT THREE", "OL CHIKI DIGIT THREE", "VAI DIGIT THREE", "SAURASHTRA DIGIT THREE",
     "KAYAH LI DIGIT THREE", "JAVANESE DIGIT THREE", "MYANMAR TAI LAING DIGIT THREE",
     "CHAM DIGIT THREE", "MEETEI MAYEK DIGIT THREE", "FULLWIDTH DIGIT THREE",
     "OSMANYA DIGIT THREE", "HANIFI ROHINGYA DIGIT THREE", "BRAHMI DIGIT THREE",
     "SORA SOMPENG DIGIT THREE", "CHAKMA DIGIT THREE", "SHARADA DIGIT THREE",
     "KHUDAWADI DIGIT THREE", "NEWA DIGIT THREE", "TIRHUTA DIGIT THREE", "MODI DIGIT THREE",
     "TAKRI DIGIT THREE", "AHOM DIGIT THREE", "WARANG CITI DIGIT THREE",
     "DIVES AKURU DIGIT THREE", "BHAIKSUKI DIGIT THREE", "MASARAM GONDI DIGIT THREE",
     "GUNJALA GONDI DIGIT THREE", "MRO DIGIT THREE", "TANGSA DIGIT THREE",
     "PAHAWH HMONG DIGIT THREE", "MATHEMATICAL BOLD DIGIT THREE",
     "MATHEMATICAL DOUBLE-STRUCK DIGIT THREE", "MATHEMATICAL SANS-SERIF DIGIT THREE",
     "MATHEMATICAL SANS-SERIF BOLD DIGIT THREE", "MATHEMATICAL MONOSPACE DIGIT THREE",
     "NYIAKENG PUACHUE HMONG DIGIT THREE", "WANCHO DIGIT THREE", "ADLAM DIGIT THREE",
     "SEGMENTED DIGIT THREE"},
    {"4", "ARABIC-INDIC DIGIT FOUR", "EXTENDED ARABIC-INDIC DIGIT FOUR", "NKO DIGIT FOUR",
     "DEVANAGARI DIGIT FOUR", "BENGALI DIGIT FOUR", "GURMUKHI DIGIT FOUR",
     "GUJARATI DIGIT FOUR", "ORIYA DIGIT FOUR", "TAMIL DIGIT FOUR", "TELUGU DIGIT FOUR",
     "KANNADA DIGIT FOUR", "MALAYALAM DIGIT FOUR", "SINHALA LITH DIGIT FOUR", "THAI DIGIT FOUR",
     "LAO DIGIT FOUR", "TIBETAN DIGIT FOUR", "MYANMAR DIGIT FOUR", "MYANMAR SHAN DIGIT FOUR",
     "KHMER DIGIT FOUR", "MONGOLIAN DIGIT FOUR", "LIMBU DIGIT FOUR", "NEW TAI LUE DIGIT FOUR",
     "TAI THAM HORA DIGIT FOUR", "TAI THAM THAM DIGIT FOUR", "BALINESE DIGIT FOUR",
     "SUNDANESE DIGIT FOUR", "LEPCHA DIGIT FOUR", "OL CHIKI DIGIT FOUR", "VAI DIGIT FOUR",
     "SAURASHTRA DIGIT FOUR", "KAYAH LI DIGIT FOUR", "JAVANESE DIGIT FOUR",
     "MYANMAR TAI LAING DIGIT FOUR", "CHAM DIGIT FOUR", "MEETEI MAYEK DIGIT FOUR",
     "FULLWIDTH DIGIT FOUR", "OSMANYA DIGIT FOUR", "HANIFI ROHINGYA DIGIT FOUR",
     "BRAHMI DIGIT FOUR", "SORA SOMPENG DIGIT FOUR", "CHAKMA DIGIT FOUR", "SHARADA DIGIT FOUR",
     "KHUDAWADI DIGIT FOUR", "NEWA DIGIT FOUR", "TIRHUTA DIGIT FOUR", "MODI DIGIT FOUR",
     "TAKRI DIGIT FOUR", "AHOM DIGIT FOUR", "WARANG CITI DIGIT FOUR", "DIVES AKURU DIGIT FOUR",
     "BHAIKSUKI DIGIT FOUR", "MASARAM GONDI DIGIT FOUR", "GUNJALA GONDI DIGIT FOUR",
     "MRO DIGIT FOUR", "TANGSA DIGIT FOUR", "PAHAWH HMONG DIGIT FOUR",
     "MATHEMATICAL BOLD DIGIT FOUR", "MATHEMATICAL DOUBLE-STRUCK DIGIT FOUR",
     "MATHEMATICAL SANS-SERIF DIGIT FOUR", "MATHEMATICAL SANS-SERIF BOLD DIGIT FOUR",
     "MATHEMATICAL MONOSPACE DIGIT FOUR", "NYIAKENG PUACHUE HMONG DIGIT FOUR",
     "WANCHO DIGIT FOUR", "ADLAM DIGIT FOUR", "SEGMENTED DIGIT FOUR"},
    {"5", "ARABIC-INDIC DIGIT FIVE", "EXTENDED ARABIC-INDIC DIGIT FIVE", "NKO DIGIT FIVE",
     "DEVANAGARI DIGIT FIVE", "BENGALI DIGIT FIVE", "GURMUKHI DIGIT FIVE",
     "GUJARATI DIGIT FIVE", "ORIYA DIGIT FIVE", "TAMIL DIGIT FIVE", "TELUGU DIGIT FIVE",
     "KANNADA DIGIT FIVE", "MALAYALAM DIGIT FIVE", "SINHALA LITH DIGIT FIVE", "THAI DIGIT FIVE",
     "LAO DIGIT FIVE", "TIBETAN DIGIT FIVE", "MYANMAR DIGIT FIVE", "MYANMAR SHAN DIGIT FIVE",
     "KHMER DIGIT FIVE", "MONGOLIAN DIGIT FIVE", "LIMBU DIGIT FIVE", "NEW TAI LUE DIGIT FIVE",
     "TAI THAM HORA DIGIT FIVE", "TAI THAM THAM DIGIT FIVE", "BALINESE DIGIT FIVE",
     "SUNDANESE DIGIT FIVE", "LEPCHA DIGIT FIVE", "OL CHIKI DIGIT FIVE", "VAI DIGIT FIVE",
     "SAURASHTRA DIGIT FIVE", "KAYAH LI DIGIT FIVE", "JAVANESE DIGIT FIVE",
     "MYANMAR TAI LAING DIGIT FIVE", "CHAM DIGIT FIVE", "MEETEI MAYEK DIGIT FIVE",
     "FULLWIDTH DIGIT FIVE", "OSMANYA DIGIT FIVE", "HANIFI ROHINGYA DIGIT FIVE",
     "BRAHMI DIGIT FIVE", "SORA SOMPENG DIGIT FIVE", "CHAKMA DIGIT FIVE", "SHARADA DIGIT FIVE",
     "KHUDAWADI DIGIT FIVE", "NEWA DIGIT FIVE", "TIRHUTA DIGIT FIVE", "MODI DIGIT FIVE",
     "TAKRI DIGIT FIVE", "AHOM DIGIT FIVE", "WARANG CITI DIGIT FIVE", "DIVES AKURU DIGIT FIVE",
     "BHAIKSUKI DIGIT FIVE", "MASARAM GONDI DIGIT FIVE", "GUNJALA GONDI DIGIT FIVE",
     "MRO DIGIT FIVE", "TANGSA DIGIT FIVE", "PAHAWH HMONG DIGIT FIVE",
     "MATHEMATICAL BOLD DIGIT FIVE", "MATHEMATICAL DOUBLE-STRUCK DIGIT FIVE",
     "MATHEMATICAL SANS-SERIF DIGIT FIVE", "MATHEMATICAL SANS-SERIF BOLD DIGIT FIVE",
     "MATHEMATICAL MONOSPACE DIGIT FIVE", "NYIAKENG PUACHUE HMONG DIGIT FIVE",
     "WANCHO DIGIT FIVE", "ADLAM DIGIT FIVE", "SEGMENTED DIGIT FIVE"},
    {"6", "ARABIC-INDIC DIGIT SIX", "EXTENDED ARABIC-INDIC DIGIT SIX", "NKO DIGIT SIX",
     "DEVANAGARI DIGIT SIX", "BENGALI DIGIT SIX", "GURMUKHI DIGIT SIX", "GUJARATI DIGIT SIX",
     "ORIYA DIGIT SIX", "TAMIL DIGIT SIX", "TELUGU DIGIT SIX", "KANNADA DIGIT SIX",
     "MALAYALAM DIGIT SIX", "SINHALA LITH DIGIT SIX", "THAI DIGIT SIX", "LAO DIGIT SIX",
     "TIBETAN DIGIT SIX", "MYANMAR DIGIT SIX", "MYANMAR SHAN DIGIT SIX", "KHMER DIGIT SIX",
     "MONGOLIAN DIGIT SIX", "LIMBU DIGIT SIX", "NEW TAI LUE DIGIT SIX",
     "TAI THAM HORA DIGIT SIX", "TAI THAM THAM DIGIT SIX", "BALINESE DIGIT SIX",
     "SUNDANESE DIGIT SIX", "LEPCHA DIGIT SIX", "OL CHIKI DIGIT SIX", "VAI DIGIT SIX",
     "SAURASHTRA DIGIT SIX", "KAYAH LI DIGIT SIX", "JAVANESE DIGIT SIX",
     "MYANMAR TAI LAING DIGIT SIX", "CHAM DIGIT SIX", "MEETEI MAYEK DIGIT SIX",
     "FULLWIDTH DIGIT SIX", "OSMANYA DIGIT SIX", "HANIFI ROHINGYA DIGIT SIX",
     "BRAHMI DIGIT SIX", "SORA SOMPENG DIGIT SIX", "CHAKMA DIGIT SIX", "SHARADA DIGIT SIX",
     "KHUDAWADI DIGIT SIX", "NEWA DIGIT SIX", "TIRHUTA DIGIT SIX", "MODI DIGIT SIX",
     "TAKRI DIGIT SIX", "AHOM DIGIT SIX", "WARANG CITI DIGIT SIX", "DIVES AKURU DIGIT SIX",
     "BHAIKSUKI DIGIT SIX", "MASARAM GONDI DIGIT SIX", "GUNJALA GONDI DIGIT SIX",
     "MRO DIGIT SIX", "TANGSA DIGIT SIX", "PAHAWH HMONG DIGIT SIX",
     "MATHEMATICAL BOLD DIGIT SIX", "MATHEMATICAL DOUBLE-STRUCK DIGIT SIX",
     "MATHEMATICAL SANS-SERIF DIGIT SIX", "MATHEMATICAL SANS-SERIF BOLD DIGIT SIX",
     "MATHEMATICAL MONOSPACE DIGIT SIX", "NYIAKENG PUACHUE HMONG DIGIT SIX", "WANCHO DIGIT SIX",
     "ADLAM DIGIT SIX", "SEGMENTED DIGIT SIX"},
    {"7", "ARABIC-INDIC DIGIT SEVEN", "EXTENDED ARABIC-INDIC DIGIT SEVEN", "NKO DIGIT SEVEN",
     "DEVANAGARI DIGIT SEVEN", "BENGALI DIGIT SEVEN", "GURMUKHI DIGIT SEVEN",
     "GUJARATI DIGIT SEVEN", "ORIYA DIGIT SEVEN", "TAMIL DIGIT SEVEN", "TELUGU DIGIT SEVEN",
     "KANNADA DIGIT SEVEN", "MALAYALAM DIGIT SEVEN", "SINHALA LITH DIGIT SEVEN",
     "THAI DIGIT SEVEN", "LAO DIGIT SEVEN", "TIBETAN DIGIT SEVEN", "MYANMAR DIGIT SEVEN",
     "MYANMAR SHAN DIGIT SEVEN", "KHMER DIGIT SEVEN", "MONGOLIAN DIGIT SEVEN",
     "LIMBU DIGIT SEVEN", "NEW TAI LUE DIGIT SEVEN", "TAI THAM HORA DIGIT SEVEN",
     "TAI THAM THAM DIGIT SEVEN", "BALINESE DIGIT SEVEN", "SUNDANESE DIGIT SEVEN",
     "LEPCHA DIGIT SEVEN", "OL CHIKI DIGIT SEVEN", "VAI DIGIT SEVEN", "SAURASHTRA DIGIT SEVEN",
     "KAYAH LI DIGIT SEVEN", "JAVANESE DIGIT SEVEN", "MYANMAR TAI LAING DIGIT SEVEN",
     "CHAM DIGIT SEVEN", "MEETEI MAYEK DIGIT SEVEN", "FULLWIDTH DIGIT SEVEN",
     "OSMANYA DIGIT SEVEN", "HANIFI ROHINGYA DIGIT SEVEN", "BRAHMI DIGIT SEVEN",
     "SORA SOMPENG DIGIT SEVEN", "CHAKMA DIGIT SEVEN", "SHARADA DIGIT SEVEN",
     "KHUDAWADI DIGIT SEVEN", "NEWA DIGIT SEVEN", "TIRHUTA DIGIT SEVEN", "MODI DIGIT SEVEN",
     "TAKRI DIGIT SEVEN", "AHOM DIGIT SEVEN", "WARANG CITI DIGIT SEVEN",
     "DIVES AKURU DIGIT SEVEN", "BHAIKSUKI DIGIT SEVEN", "MASARAM GONDI DIGIT SEVEN",
     "GUNJALA GONDI DIGIT SEVEN", "MRO DIGIT SEVEN", "TANGSA DIGIT SEVEN",
     "PAHAWH HMONG DIGIT SEVEN", "MATHEMATICAL BOLD DIGIT SEVEN",
     "MATHEMATICAL DOUBLE-STRUCK DIGIT SEVEN", "MATHEMATICAL SANS-SERIF DIGIT SEVEN",
     "MATHEMATICAL SANS-SERIF BOLD DIGIT SEVEN", "MATHEMATICAL MONOSPACE DIGIT SEVEN",
     "NYIAKENG PUACHUE HMONG DIGIT SEVEN", "WANCHO DIGIT SEVEN", "ADLAM DIGIT SEVEN",
     "SEGMENTED DIGIT SEVEN"},
    {"8", "ARABIC-INDIC DIGIT EIGHT", "EXTENDED ARABIC-INDIC DIGIT EIGHT", "NKO DIGIT EIGHT",
     "DEVANAGARI DIGIT EIGHT", "BENGALI DIGIT EIGHT", "GURMUKHI DIGIT EIGHT",
     "GUJARATI DIGIT EIGHT", "ORIYA DIGIT EIGHT", "TAMIL DIGIT EIGHT", "TELUGU DIGIT EIGHT",
     "KANNADA DIGIT EIGHT", "MALAYALAM DIGIT EIGHT", "SINHALA LITH DIGIT EIGHT",
     "THAI DIGIT EIGHT", "LAO DIGIT EIGHT", "TIBETAN DIGIT EIGHT", "MYANMAR DIGIT EIGHT",
     "MYANMAR SHAN DIGIT EIGHT", "KHMER DIGIT EIGHT", "MONGOLIAN DIGIT EIGHT",
     "LIMBU DIGIT EIGHT", "NEW TAI LUE DIGIT EIGHT", "TAI THAM HORA DIGIT EIGHT",
     "TAI THAM THAM DIGIT EIGHT", "BALINESE DIGIT EIGHT", "SUNDANESE DIGIT EIGHT",
     "LEPCHA DIGIT EIGHT", "OL CHIKI DIGIT EIGHT", "VAI DIGIT EIGHT", "SAURASHTRA DIGIT EIGHT",
     "KAYAH LI DIGIT EIGHT", "JAVANESE DIGIT EIGHT", "MYANMAR TAI LAING DIGIT EIGHT",
     "CHAM DIGIT EIGHT", "MEETEI MAYEK DIGIT EIGHT", "FULLWIDTH DIGIT EIGHT",
     "OSMANYA DIGIT EIGHT", "HANIFI ROHINGYA DIGIT EIGHT", "BRAHMI DIGIT EIGHT",
     "SORA SOMPENG DIGIT EIGHT", "CHAKMA DIGIT EIGHT", "SHARADA DIGIT EIGHT",
     "KHUDAWADI DIGIT EIGHT", "NEWA DIGIT EIGHT", "TIRHUTA DIGIT EIGHT", "MODI DIGIT EIGHT",
     "TAKRI DIGIT EIGHT", "AHOM DIGIT EIGHT", "WARANG CITI DIGIT EIGHT",
     "DIVES AKURU DIGIT EIGHT", "BHAIKSUKI DIGIT EIGHT", "MASARAM GONDI DIGIT EIGHT",
     "GUNJALA GONDI DIGIT EIGHT", "MRO DIGIT EIGHT", "TANGSA DIGIT EIGHT",
     "PAHAWH HMONG DIGIT EIGHT", "MATHEMATICAL BOLD DIGIT EIGHT",
     "MATHEMATICAL DOUBLE-STRUCK DIGIT EIGHT", "MATHEMATICAL SANS-SERIF DIGIT EIGHT",
     "MATHEMATICAL SANS-SERIF BOLD DIGIT EIGHT", "MATHEMATICAL MONOSPACE DIGIT EIGHT",
     "NYIAKENG PUACHUE HMONG DIGIT EIGHT", "WANCHO DIGIT EIGHT", "ADLAM DIGIT EIGHT",
     "SEGMENTED DIGIT EIGHT"},
    {"9", "ARABIC-INDIC DIGIT NINE", "EXTENDED ARABIC-INDIC DIGIT NINE", "NKO DIGIT NINE",
     "DEVANAGARI DIGIT NINE", "BENGALI DIGIT NINE", "GURMUKHI DIGIT NINE",
     "GUJARATI DIGIT NINE", "ORIYA DIGIT NINE", "TAMIL DIGIT NINE", "TELUGU DIGIT NINE",
     "KANNADA DIGIT NINE", "MALAYALAM DIGIT NINE", "SINHALA LITH DIGIT NINE", "THAI DIGIT NINE",
     "LAO DIGIT NINE", "TIBETAN DIGIT NINE", "MYANMAR DIGIT NINE", "MYANMAR SHAN DIGIT NINE",
     "KHMER DIGIT NINE", "MONGOLIAN DIGIT NINE", "LIMBU DIGIT NINE", "NEW TAI LUE DIGIT NINE",
     "TAI THAM HORA DIGIT NINE", "TAI THAM THAM DIGIT NINE", "BALINESE DIGIT NINE",
     "SUNDANESE DIGIT NINE", "LEPCHA DIGIT NINE", "OL CHIKI DIGIT NINE", "VAI DIGIT NINE",
     "SAURASHTRA DIGIT NINE", "KAYAH LI DIGIT NINE", "JAVANESE DIGIT NINE",
     "MYANMAR TAI LAING DIGIT NINE", "CHAM DIGIT NINE", "MEETEI MAYEK DIGIT NINE",
     "FULLWIDTH DIGIT NINE", "OSMANYA DIGIT NINE", "HANIFI ROHINGYA DIGIT NINE",
     "BRAHMI DIGIT NINE", "SORA SOMPENG DIGIT NINE", "CHAKMA DIGIT NINE", "SHARADA DIGIT NINE",
     "KHUDAWADI DIGIT NINE", "NEWA DIGIT NINE", "TIRHUTA DIGIT NINE", "MODI DIGIT NINE",
     "TAKRI DIGIT NINE", "AHOM DIGIT NINE", "WARANG CITI DIGIT NINE", "DIVES AKURU DIGIT NINE",
     "BHAIKSUKI DIGIT NINE", "MASARAM GONDI DIGIT NINE", "GUNJALA GONDI DIGIT NINE",
     "MRO DIGIT NINE", "TANGSA DIGIT NINE", "PAHAWH HMONG DIGIT NINE",
     "MATHEMATICAL BOLD DIGIT NINE", "MATHEMATICAL DOUBLE-STRUCK DIGIT NINE",
     "MATHEMATICAL SANS-SERIF DIGIT NINE", "MATHEMATICAL SANS-SERIF BOLD DIGIT NINE",
     "MATHEMATICAL MONOSPACE DIGIT NINE", "NYIAKENG PUACHUE HMONG DIGIT NINE",
     "WANCHO DIGIT NINE", "ADLAM DIGIT NINE", "SEGMENTED DIGIT NINE"}>>

IsDigit(c) == \E d \in 1 .. 10 : c \in DecimalDigits[d]
DigitValue(c) ==
  IF IsDigit(c) THEN (CHOOSE d \in 1 .. 10 : c \in DecimalDigits[d]) - 1 ELSE 0 - 1

\* ''.join(char_sets)
RECURSIVE Join(_)
Join(char_sets) ==
  IF char_sets = <<>> THEN <<>> ELSE Head(char_sets) \o Join(Tail(char_sets))

\* every str_id that `length` draws of random.choice(all_chars) can give
Candidates(all_chars, length) ==
  [1 .. length -> {all_chars[k] : k \in DOMAIN all_chars}]

RECURSIVE IntOf(_)
IntOf(str_id) ==
  IF str_id = <<>> THEN 0
  ELSE 10 * IntOf(SubSeq(str_id, 1, Len(str_id) - 1)) + DigitValue(str_id[Len(str_id)])

\* the text int() and float() read: surrounding whitespace is dropped, one
\* sign may lead, letters count in either case. Whitespace is tab, line feed,
\* U+000B, form feed, carriage return, space, and the characters outside ASCII
\* that str.isspace() holds of (U+0085 NEXT LINE, U+00A0, U+1680, U+2000 to
\* U+200A, U+2028, U+2029, U+202F, U+205F, U+3000)
Whitespace ==
  {"\t", "\n", "LINE TABULATION", "\f", "\r", " ", "NEXT LINE", "NO-BREAK SPACE",
   "OGHAM SPACE MARK", "EN QUAD", "EM QUAD", "EN SPACE", "EM SPACE", "THREE-PER-EM SPACE",
   "FOUR-PER-EM SPACE", "SIX-PER-EM SPACE", "FIGURE SPACE", "PUNCTUATION SPACE", "THIN SPACE",
   "HAIR SPACE", "LINE SEPARATOR", "PARAGRAPH SEPARATOR", "NARROW NO-BREAK SPACE",
   "MEDIUM MATHEMATICAL SPACE", "IDEOGRAPHIC SPACE"}

RECURSIVE LStrip(_)
LStrip(text) == IF text # <<>> /\ Head(text) \in Whitespace THEN LStrip(Tail(text)) ELSE text

RECURSIVE RStrip(_)
RStrip(text) ==
  IF text # <<>> /\ text[Len(text)] \in Whitespace
  THEN RStrip(SubSeq(text, 1, Len(text) - 1)) ELSE text

Strip(text) == RStrip(LStrip(text))

Unsigned(text) == IF text # <<>> /\ Head(text) \in {"+", "-"} THEN Tail(text) ELSE text
SignOf(text) == IF text # <<>> /\ Head(text) = "-" THEN 0 - 1 ELSE 1

LowerText(text) ==
  [k \in DOMAIN text |->
     IF IndexOf(AsciiUppercase, text[k], 1) > 0
     THEN AsciiLowercase[IndexOf(AsciiUppercase, text[k], 1)] ELSE text[k]]

\* digits, with single underscores allowed between two of them
IsDigitPart(text) ==
  /\ text # <<>>
  /\ IsDigit(text[1])
  /\ IsDigit(text[Len(text)])
  /\ \A k \in DOMAIN text :
       IsDigit(text[k]) \/ (text[k] = "_" /\ k > 1 /\ text[k - 1] # "_")

DigitsOf(text) == SelectSeq(text, IsDigit)

\* int(str_id) succeeds
IsIntText(str_id) == IsDigitPart(Unsigned(Strip(str_id)))
IntValue(str_id) == SignOf(Strip(str_id)) * IntOf(DigitsOf(Unsigned(Strip(str_id))))

\* the parts of a decimal text: mantissa [e exponent], mantissa = int [. frac]
Mantissa(body) ==
  IF IndexOf(body, "e", 1) = 0 THEN body ELSE SubSeq(body, 1, IndexOf(body, "e", 1) - 1)
Exponent(body) ==
  IF IndexOf(body, "e", 1) = 0 THEN <<"0">> ELSE SubSeq(body, IndexOf(body, "e", 1) + 1, Len(body))
IntPart(m) == IF IndexOf(m, ".", 1) = 0 THEN m ELSE SubSeq(m, 1, IndexOf(m, ".", 1) - 1)
FracPart(m) == IF IndexOf(m, ".", 1) = 0 THEN <<>> ELSE SubSeq(m, IndexOf(m, ".", 1) + 1, Len(m))

IsMantissa(m) ==
  IF IndexOf(m, ".", 1) = 0 THEN IsDigitPart(m)
  ELSE /\ IntPart(m) = <<>> \/ IsDigitPart(IntPart(m))
       /\ FracPart(m) = <<>> \/ IsDigitPart(FracPart(m))
       /\ IntPart(m) # <<>> \/ FracPart(m) # <<>>

\* inf, infinity and nan, which float() reads as well
Infinite == {<<"i", "n", "f">>, <<"i", "n", "f", "i", "n", "i", "t", "y">>}
NotANumber == <<"n", "a", "n">>

FloatBody(str_id) == LowerText(Unsigned(Strip(str_id)))

\* float(str_id) succeeds
IsFloatText(str_id) ==
  \/ FloatBody(str_id) \in Infinite
  \/ FloatBody(str_id) = NotANumber
  \/ /\ IsMantissa(Mantissa(FloatBody(str_id)))
     /\ IsDigitPart(Unsigned(Exponent(FloatBody(str_id))))

\* the number n * 10^e written with the largest e that is 0 or less
RECURSIVE Normal(_, _)
Normal(n, e) ==
  IF n = 0 THEN <<0, 0>>
  ELSE IF e = 0 THEN <<n, 0>>
  ELSE IF e > 0 THEN Normal(n * 10, e - 1)
  ELSE IF n % 10 = 0 THEN Normal(n \div 10, e + 1)
  ELSE <<n, e>>

\* the number a decimal text denotes
DecimalValue(body) ==
  LET m == Mantissa(body)
      x == Exponent(body)
  IN Normal(IntOf(DigitsOf(IntPart(m)) \o DigitsOf(FracPart(m))),
            SignOf(x) * IntOf(DigitsOf(Unsigned(x))) - Len(DigitsOf(FracPart(m))))

\* int(str_id) and float(str_id) raise ValueError on a text that is no number
\* of theirs; str keeps the text
CoerceRaises(str_id, return_type) ==
  \/ return_type = "int" /\ ~IsIntText(str_id)
  \/ return_type = "float" /\ ~IsFloatText(str_id)

\* id_value: the number n * 10^e, the float named s (inf, -inf, nan), or the
\* text s
Coerce(str_id, return_type) ==
  CASE return_type = "int" ->
         [kind |-> "int", n |-> IntValue(str_id), e |-> 0, s |-> <<>>]
    [] return_type = "float" /\ FloatBody(str_id) \in Infinite ->
         [kind |-> "float", n |-> 0, e |-> 0,
          s |-> IF SignOf(Strip(str_id)) < 0 THEN <<"-", "i", "n", "f">> ELSE <<"i", "n", "f">>]
    [] return_type = "float" /\ FloatBody(str_id) = NotANumber ->
         [kind |-> "float", n |-> 0, e |-> 0, s |-> NotANumber]
    [] return_type = "float" /\ FloatBody(str_id) \notin Infinite \cup {NotANumber} ->
         LET v == DecimalValue(FloatBody(str_id))
         IN [kind |-> "float", n |-> SignOf(Strip(str_id)) * v[1], e |-> v[2], s |-> <<>>]
    [] OTHER -> [kind |-> "str", n |-> 0, e |-> 0, s |-> str_id]

IdTakenNever(rows, id_value) == FALSE

\* raw_get(filter_=(model.id == id_value)) finds a row: the integer key of a
\* row equals a whole number of the same value, and no other float and no text
IdTaken(rows, id_value) ==
  /\ id_value.kind # "str"
  /\ id_value.s = <<>>
  /\ id_value.e = 0
  /\ Where(rows, IdIs(id_value.n)) # <<>>

\* ---------------------------------------------------------------- callers
Args(i, data, filters, sort_by, sort_order, limit, offset, char_sets, length, return_type) ==
  [id |-> i, data |-> data, filters |-> filters, sort_by |-> sort_by,
   sort_order |-> sort_order, limit |-> limit, offset |-> offset,
   char_sets |-> char_sets, length |-> length, return_type |-> return_type]

NoArgs == Args(0, NoData, <<>>, None, "asc", NoInt, NoInt, <<>>, 0, "str")

\* a body of IncidentUpdateRequest: each field holds a value, or None when the
\* body omits it
UpdateBody(st, so, d) == [status |-> st, source |-> so, description |-> d]

\* the request update_incident is serving: where the handler stands, the path
\* id and the body, the record its first get found, the store failures of the
\* calls it has awaited, and its response
NoRequest ==
  [stage |-> "none", id |-> 0, body |-> UpdateBody(None, None, None), found |-> RNone, faults |-> 0,
   status_code |-> 0, content |-> RNone]

\* a caller between two calls. attempt is the loop variable; opened, fails,
\* faults (failures the store or the pool caused), reports (calls of
\* handle_async), succeeded (the 1-based attempt that returned), draws
\* (candidates drawn, counted up to MaxDraws), inserted (rows the call's creates
\* have committed) record what the call in progress has done so far; session
\* and conn tell whether the attempt has an open session and whether that
\* session has a connection of the pool; id_value is the candidate whose
\* existence query is in flight; write is the statement of a writing
\* method that waits for its commit
Idle ==
  [pc |-> "idle", op |-> "none", arg |-> NoArgs, attempt |-> 0, opened |-> 0,
   session |-> 0, conn |-> 0, fails |-> 0, faults |-> 0, reports |-> 0, succeeded |-> 0, draws |-> 0,
   inserted |-> 0, write |-> [keys |-> {}, rows |-> <<>>], http |-> NoRequest,
   exc |-> NoExc, out |-> "none", raised |-> NoExc, ret |-> RNone, id_value |-> RNone]

FacadeOps ==
  {"create", "get", "get_all", "get_all_with_filters", "update_with_filters",
   "delete_with_filters", "update", "delete"}
IdOps == {"get", "update", "delete", "generate_unique_field_id"}
\* the methods that change or remove rows already stored
StoredRowWrites == {"update", "delete", "update_with_filters", "delete_with_filters"}

Tasks == {1, 2}

Payload(keys, i, st) == Dict(keys, Row(i, "x", st, "api", 0))

CreateData ==
  {Payload({"description", "status", "source"}, 0, "new"),
   Payload({"description", "source"}, 0, None)}
  \cup {Payload({"id", "description", "status", "source"}, i, "new") : i \in 1 .. MaxId}

UpdateData ==
  {Payload({"status"}, 0, "resolved"), Payload({"status"}, 0, None)}
  \cup {Payload({"id"}, i, None) : i \in 1 .. MaxId}

FilterSets == {<<>>, <<Filter("status", "==", "new")>>,
               <<Filter("status", "==", "new"), Filter("id", ">=", 2)>>}

CharSets == {<<>>, <<<<"1">>>>, <<<<"1", "2">>, <<"a">>>>}

\* char_sets whose draws spell the numerals of int() and float(): digits with
\* point, exponent, underscore and sign; digits of two scripts with sign and
\* blank; whitespace and digits from outside ASCII; the letters of inf and nan
NumeralCharSets ==
  {<<<<"1", "e", "_", ".">>>>,
   <<<<"-", "+", " ", "1", "ARABIC-INDIC DIGIT THREE">>>>,
   <<<<"LINE TABULATION", "NO-BREAK SPACE", "1", "FULLWIDTH DIGIT TWO">>>>,
   <<<<"i", "n", "f", "a">>>>}
\* [string.digits, string.ascii_uppercase, string.ascii_lowercase]
DefaultCharSets == <<Digits, AsciiUppercase, AsciiLowercase>>

WithId(i) == [NoArgs EXCEPT !.id = i]
WithData(a, data) == [a EXCEPT !.data = data]

\* the calls of the facade's eight methods
FacadeCalls ==
  {<<"create", WithData(NoArgs, d)>> : d \in CreateData}
  \cup {<<"get", WithId(i)>> : i \in 1 .. MaxId}
  \cup {<<"delete", WithId(i)>> : i \in 1 .. MaxId}
  \cup {<<"update", WithData(WithId(i), d)>> : i \in 1 .. MaxId, d \in UpdateData}
  \cup {<<"get_all", NoArgs>>}
  \cup {<<"get_all_with_filters",
          [NoArgs EXCEPT !.filters = f, !.sort_by = q[1], !.sort_order = "desc",
                                         !.limit = q[2], !.offset = q[3]]>> :
          f \in FilterSets, q \in {<<None, NoInt, NoInt>>, <<"id", 1, 0>>, <<"nosuch", 1, 1>>}}
  \cup {<<"update_with_filters", WithData([NoArgs EXCEPT !.filters = f], d)>> :
          f \in FilterSets, d \in UpdateData}
  \cup {<<"delete_with_filters", [NoArgs EXCEPT !.filters = f]>> : f \in FilterSets}

\* the writes two concurrent callers issue
ConcCalls ==
  {<<"create", WithData(NoArgs, Payload({"description", "status", "source"}, 0, "new"))>>}
  \cup {<<"delete", WithId(1)>>}
  \cup {<<"update", WithData(WithId(1), Payload({"id"}, 2, None))>>}
  \cup {<<"update_with_filters", WithData(NoArgs, Payload({"id"}, 1, None))>>,
        <<"delete_with_filters", [NoArgs EXCEPT !.filters = <<Filter("id", ">=", 2)>>]>>}

\* the calls of generate_unique_field_id (lengths up to MaxLen, 1 with the
\* default char_sets), and the creates that fill the table
GenCalls ==
  {<<"create", WithData(NoArgs, Payload({"id", "description", "status", "source"}, i, "new"))>> :
     i \in 1 .. MaxId}
  \cup UNION {{<<"generate_unique_field_id",
                 [NoArgs EXCEPT !.char_sets = cs, !.length = n, !.return_type = rt]>> :
                 n \in IF cs = <<>> THEN {1} ELSE 1 .. MaxLen, rt \in {"int", "float", "str"}} : cs \in CharSets}
  \cup {<<"generate_unique_field_id",
          [NoArgs EXCEPT !.char_sets = cs, !.length = MaxLen, !.return_type = rt]>> :
          cs \in NumeralCharSets, rt \in {"int", "float"}}

\* ---------------------------------------------------------------- the retry loop
Configured(op) == model # None /\ (op \in IdOps => field_id # None)

\* the inserts a call can still commit: one in each attempt of a create that
\* is yet to reach its commit
Ahead(k) ==
  LET left == count_attemps - k.attempt - (IF k.pc \in {"loop", "session", "commit"} THEN 0 ELSE 1)
  IN IF k.op = "create" /\ k.pc \in {"loop", "session", "commit", "refresh", "close", "raising", "except"}
        /\ left > 0
     THEN left ELSE 0

\* the creates a caller issues: those whose attempts, with the attempts the
\* creates in progress have ahead of them, can each commit an insert within
\* MaxRows inserts and, when the store is to assign the id, each take a value
\* of the sequence within MaxSerial values
Issues(c) ==
  c[1] = "create" =>
    /\ clock + Ahead(task[1]) + Ahead(task[2]) + count_attemps <= MaxRows
    /\ "id" \notin c[2].data.fields =>
         id_seq + count_attemps
           + (IF "id" \in task[1].arg.data.fields THEN 0 ELSE Ahead(task[1]))
           + (IF "id" \in task[2].arg.data.fields THEN 0 ELSE Ahead(task[2])) <= MaxSerial

Enter(t, calls) ==
  /\ task[t].pc = "idle"
  /\ \E c \in calls :
       /\ Issues(c)
       /\ task' = [task EXCEPT ![t] = [Idle EXCEPT !.pc = "loop", !.op = c[1], !.arg = c[2]]]
  /\ UNCHANGED <<model, field_id, count_attemps, store, id_seq, lock, clock>>

\* a facade method is called
Call(t) == Enter(t, FacadeCalls)

\* one of two concurrent writers calls
CallConc(t) == Enter(t, ConcCalls)

\* generate_unique_field_id (or a create) is called
CallGen(t) == Enter(t, GenCalls)

OpenSessionLocking(t) ==
  /\ task[t].pc = "loop"
  /\ task[t].attempt < count_attemps
  /\ lock = Unlocked
  /\ lock' = "locked"
  /\ task' = [task EXCEPT ![t].pc = "session", ![t].opened = @ + 1, ![t].session = @ + 1]
  /\ UNCHANGED <<model, field_id, count_attemps, store, id_seq, clock>>

\* for attempt in range(count_attemps): ... async with AsyncSessionLocal() as session
OpenSession(t) ==
  /\ task[t].pc = "loop"
  /\ task[t].attempt < count_attemps
  /\ task' = [task EXCEPT ![t].pc = "session", ![t].opened = @ + 1, ![t].session = @ + 1]
  /\ UNCHANGED <<model, field_id, count_attemps, store, id_seq, lock, clock>>

\* range(count_attemps) is exhausted without a return or a raise: the method
\* ends and the caller receives None
FallThrough(t) ==
  /\ task[t].pc = "loop"
  /\ task[t].attempt >= count_attemps
  /\ task' = [task EXCEPT ![t].pc = "done", ![t].out = "returned", ![t].ret = RNone]
  /\ UNCHANGED <<model, field_id, count_attemps, store, id_seq, lock, clock>>

CaughtHoldingSession(tk) == [tk EXCEPT !.pc = "except", !.fails = @ + 1]

\* the `async with` has closed the session of a body that raised: what the
\* session had not committed is rolled back, its connection is back in the
\* pool, and control is in the `except Exception as ex_` block
Caught(tk) ==
  [tk EXCEPT !.pc = "except", !.session = 0, !.conn = 0, !.fails = @ + 1,
             !.write = [keys |-> {}, rows |-> <<>>]]

\* the attempt's body raises: the exception leaves the raw call, which has no
\* value to return and no query in flight, for the exit of the `async with`;
\* the session is open until that exit has awaited its close
Raises(tk, kind) ==
  [tk EXCEPT !.pc = "raising", !.exc = Exc(kind, tk.attempt), !.ret = RNone, !.id_value = RNone]

\* the exit of the `async with` on the way out of a body that raised: await
\* session.close(); then the except block
Unwind(t) ==
  /\ task[t].pc = "raising"
  /\ task' = [task EXCEPT ![t] = Caught(@)]
  /\ UNCHANGED <<model, field_id, count_attemps, store, id_seq, lock, clock>>

\* a failure the store or the pool causes
Fault(tk, kind) == [Raises(tk, kind) EXCEPT !.faults = @ + 1]

\* that close raises: the except block catches the exception of the close in
\* place of the one that was unwinding
UnwindFails(t) ==
  /\ task[t].pc = "raising"
  /\ task' = [task EXCEPT ![t] = Caught(Fault(@, "StoreError"))]
  /\ UNCHANGED <<model, field_id, count_attemps, store, id_seq, lock, clock>>

ReturnedButLoops(tk, ret) ==
  [tk EXCEPT !.pc = "loop", !.session = 0, !.conn = 0, !.succeeded = tk.attempt + 1,
             !.attempt = @ + 1, !.ret = ret]

\* the attempt's body returned: the session is closed and the method returns
Returned(tk, ret) ==
  [tk EXCEPT !.pc = "done", !.session = 0, !.conn = 0, !.succeeded = tk.attempt + 1,
             !.out = "returned", !.ret = ret]

\* the table once the changes of a statement are committed
RECURSIVE Written(_, _)
Written(rows, changes) ==
  IF rows = <<>> THEN <<>>
  ELSE LET c == SelectSeq(changes, LAMBDA w : w[1] = Head(rows))
       IN (IF c = <<>> THEN <<Head(rows)>> ELSE c[1][2]) \o Written(Tail(rows), changes)

StoreFailsWritten(t) ==
  /\ task[t].pc \in {"session", "commit"}
  /\ task[t].op \in FacadeOps
  /\ Configured(task[t].op)
  /\ id_seq' \in {id_seq, IF task[t].op = "create" /\ task[t].pc = "session"
                           THEN NextSerial(id_seq, task[t].arg.data) ELSE id_seq}
  /\ store' = Written(store, task[t].write.rows)
  /\ task' = [task EXCEPT ![t] = Fault(@, "StoreError")]
  /\ UNCHANGED <<model, field_id, count_attemps, lock, clock>>

\* the attempt's statement raises, or its commit raises without taking
\* effect: the store fails it. An INSERT that draws its id from the sequence may fail before
\* or after nextval, and a value drawn is not given back
StoreFails(t) ==
  /\ task[t].pc \in {"session", "commit"}
  /\ task[t].op \in FacadeOps
  /\ Configured(task[t].op)
  /\ id_seq' \in {id_seq, IF task[t].op = "create" /\ task[t].pc = "session"
                           THEN NextSerial(id_seq, task[t].arg.data) ELSE id_seq}
  /\ task' = [task EXCEPT ![t] = Fault(@, "StoreError")]
  /\ UNCHANGED <<model, field_id, count_attemps, store, lock, clock>>

\* model or field_id is None: building the statement raises before the store
\* is reached
ConfigurationError(t) ==
  /\ task[t].pc = "session"
  /\ task[t].op \in FacadeOps
  /\ ~Configured(task[t].op)
  /\ task' = [task EXCEPT ![t] = Raises(@, "ConfigurationError")]
  /\ UNCHANGED <<model, field_id, count_attemps, store, id_seq, lock, clock>>

\* the raw_* call every facade method but create delegates to
RawCall(op, a, rows) ==
  CASE op = "get" -> raw_get(rows, IdIs(a.id))
    [] op = "get_all" -> raw_get_all(rows)
    [] op = "get_all_with_filters" ->
         raw_get_all_with_filters(rows, a.filters, a.sort_by, a.sort_order, a.limit, a.offset)
    [] op = "update_with_filters" -> raw_update_with_filters(rows, a.data, a.filters)
    [] op = "delete_with_filters" -> raw_delete_with_filters(rows, a.filters)
    [] op = "update" -> raw_update(rows, a.data, IdIs(a.id))
    [] op = "delete" -> raw_delete(rows, IdIs(a.id))

\* the orders in which the store can hand the rows of a table to a SELECT
\* that names no order, or rows of equal key to one that does: any
Scans(op, rows) ==
  IF op \in {"get_all", "get_all_with_filters"} /\ rows # <<>>
  THEN {[k \in 1 .. Len(rows) |-> rows[p[k]]] : p \in Permutations(1 .. Len(rows))}
  ELSE {rows}

\* the keys a writing statement holds until its transaction ends: those of
\* the rows its WHERE clause holds of, and the key it gives them
Keys(op, a, rows) ==
  LET hit == Where(rows, IF op \in {"update", "delete"} THEN IdIs(a.id) ELSE a.filters)
  IN Ids(hit) \cup (IF hit # <<>> /\ "id" \in a.data.fields THEN {a.data.v.id} ELSE {})

\* a statement that writes one of these keys waits while a session of another
\* caller that has neither committed nor closed holds it
Waits(t, keys) ==
  \E u \in Tasks \ {t} : keys \cap task[u].write.keys # {}

\* what a statement changes in the rows it ran on: each row it rewrites or
\* removes, with what the row becomes (nothing when it is removed)
Changes(old, new) ==
  IF Len(new) = Len(old)
  THEN SelectSeq([k \in DOMAIN old |-> <<old[k], <<new[k]>>>>], LAMBDA c : c[2] # <<c[1]>>)
  ELSE SelectSeq([k \in DOMAIN old |-> <<old[k], <<>>>>],
                 LAMBDA c : \A j \in DOMAIN new : new[j] # c[1])

\* await session.scalar(query) or await session.execute(query) of
\* super().raw_<op>(session=session, ...). A reading method has its result
\* and the session is still open; the table is as the call leaves it. The
\* statement of a writing method has matched its rows, its rowcount is fixed,
\* and what it changes is in the table once the commit that follows is made.
\* A statement the table's constraints refuse raises and holds no row: the
\* store aborts its transaction at once. The session's first statement runs on a connection of the pool,
\* which the session keeps until it commits or is closed
Execute(t) ==
  /\ task[t].pc = "session"
  /\ task[t].op \in FacadeOps \ {"create"}
  /\ Configured(task[t].op)
  /\ \E scan \in Scans(task[t].op, store) :
       LET o == RawCall(task[t].op, task[t].arg, scan)
           writes == task[t].op \in StoredRowWrites
           keys == IF writes THEN Keys(task[t].op, task[t].arg, scan) ELSE {}
       IN /\ ~Waits(t, keys)
          /\ store' = IF writes \/ o.store = scan THEN store ELSE o.store
          /\ task' = [task EXCEPT ![t] =
                        IF o.raised # "none"
                        THEN [Raises(@, o.raised) EXCEPT !.conn = 1]
                        ELSE IF writes
                        THEN [@ EXCEPT !.pc = "commit", !.conn = 1, !.ret = o.ret,
                                       !.write = [keys |-> keys, rows |-> Changes(scan, o.store)]]
                        ELSE [@ EXCEPT !.pc = "close", !.conn = 1, !.ret = o.ret]]
  /\ UNCHANGED <<model, field_id, count_attemps, id_seq, lock, clock>>

\* session.add(u); await session.commit() of raw_create, up to the answer to
\* the INSERT its flush sends: the id is drawn from the sequence, creating_date
\* is datetime.now(), and the key of u is held; no other session sees the row
\* before the COMMIT. The INSERT waits while an uncommitted write holds its
\* key, and one the table's constraints refuse raises and holds nothing
Insert(t) ==
  /\ task[t].pc = "session"
  /\ task[t].op = "create"
  /\ Configured(task[t].op)
  /\ ~Waits(t, {NewRow(task[t].arg.data, id_seq, clock + 1).id})
  /\ LET o == raw_create(store, id_seq, task[t].arg.data, clock + 1)
     IN /\ id_seq' = NextSerial(id_seq, task[t].arg.data)
        /\ task' = [task EXCEPT ![t] =
                      IF o.raised = "none"
                      THEN [@ EXCEPT !.pc = "commit", !.conn = 1, !.ret = o.ret,
                                     !.write = [keys |-> Ids(o.ret.rows), rows |-> <<>>]]
                      ELSE [Raises(@, o.raised) EXCEPT !.conn = 1]]
  /\ UNCHANGED <<model, field_id, count_attemps, store, lock, clock>>

\* the COMMIT of await session.commit(): the rows the statement of a writing
\* method changed, or the row u a create inserted, are in the table every
\* session reads, and the connection is back in the pool; raw_create goes on
\* to its refresh
Commit(t) ==
  /\ task[t].pc = "commit"
  /\ store' = IF task[t].op = "create" THEN store \o task[t].ret.rows
              ELSE Written(store, task[t].write.rows)
  /\ clock' = IF task[t].op = "create" THEN clock + 1 ELSE clock
  /\ task' = [task EXCEPT ![t] =
                IF task[t].op = "create"
                THEN [@ EXCEPT !.pc = "refresh", !.conn = 0, !.inserted = @ + 1,
                               !.write = [keys |-> {}, rows |-> <<>>]]
                ELSE [@ EXCEPT !.pc = "close", !.conn = 0, !.write = [keys |-> {}, rows |-> <<>>]]]
  /\ UNCHANGED <<model, field_id, count_attemps, id_seq, lock>>

\* raw_create after its commit: await session.refresh(u); return u. The
\* refresh reads the row of u's key again, on a connection the session takes
\* anew: u takes what the table holds now, and the refresh raises
\* InvalidRequestError when the row is gone
Refresh(t) ==
  /\ task[t].pc = "refresh"
  /\ LET u == Where(store, IdIs(task[t].ret.rows[1].id))
     IN task' = [task EXCEPT ![t] =
                   IF u # <<>> THEN [@ EXCEPT !.pc = "close", !.conn = 1, !.ret = ROne(u[1])]
                   ELSE [Raises(@, "InvalidRequestError") EXCEPT !.conn = 1]]
  /\ UNCHANGED <<model, field_id, count_attemps, store, id_seq, lock, clock>>

\* the refresh raises for a failure of the store: the attempt is caught with
\* its row in the table
RefreshFails(t) ==
  /\ task[t].pc = "refresh"
  /\ task' = [task EXCEPT ![t] = Fault(@, "StoreError")]
  /\ UNCHANGED <<model, field_id, count_attemps, store, id_seq, lock, clock>>

\* the `async with` block is left: await session.close(), and the method
\* returns what the attempt's body returned
Close(t) ==
  /\ task[t].pc = "close"
  /\ task' = [task EXCEPT ![t] = Returned(@, task[t].ret)]
  /\ UNCHANGED <<model, field_id, count_attemps, store, id_seq, lock, clock>>

\* the raw call's last await raises although the commit took effect, or
\* closing the session raises: the attempt fails with its writes in the store
CloseFails(t) ==
  /\ task[t].pc = "close"
  /\ task' = [task EXCEPT ![t] = Fault(@, "StoreError")]
  /\ UNCHANGED <<model, field_id, count_attemps, store, id_seq, lock, clock>>

\* ---------------------------------------------------------------- the while True of id generation
AllChars(a) == Join(IF a.char_sets = <<>> THEN DefaultCharSets ELSE a.char_sets)
\* an iteration of `while True` begins: one more candidate is drawn, whatever
\* the number drawn before it, and int(str_id) or float(str_id) raises
GenConversionError(t) ==
  /\ task[t].pc = "session"
  /\ task[t].op = "generate_unique_field_id"
  /\ \E str_id \in Candidates(AllChars(task[t].arg), task[t].arg.length) :
       /\ CoerceRaises(str_id, task[t].arg.return_type)
       /\ task' = [task EXCEPT ![t] = [Raises(@, "ConversionError") EXCEPT !.draws = Min(@ + 1, MaxDraws)]]
  /\ UNCHANGED <<model, field_id, count_attemps, store, id_seq, lock, clock>>

\* getattr(cls.model, cls.field_id) raises on an unconfigured class
GenConfigurationError(t) ==
  /\ task[t].pc = "session"
  /\ task[t].op = "generate_unique_field_id"
  /\ ~Configured(task[t].op)
  /\ \E str_id \in Candidates(AllChars(task[t].arg), task[t].arg.length) :
       /\ ~CoerceRaises(str_id, task[t].arg.return_type)
       /\ task' = [task EXCEPT ![t] = [Raises(@, "ConfigurationError") EXCEPT !.draws = Min(@ + 1, MaxDraws)]]
  /\ UNCHANGED <<model, field_id, count_attemps, store, id_seq, lock, clock>>

\* str_id is drawn and converted to id_value, and the existence query
\* `await super().raw_get(session, field == id_value)` is sent
GenQuery(t) ==
  /\ task[t].pc = "session"
  /\ task[t].op = "generate_unique_field_id"
  /\ Configured(task[t].op)
  /\ \E str_id \in Candidates(AllChars(task[t].arg), task[t].arg.length) :
       LET v == Coerce(str_id, task[t].arg.return_type)
       IN /\ ~CoerceRaises(str_id, task[t].arg.return_type)
          /\ task' = [task EXCEPT ![t] =
                        [@ EXCEPT !.pc = "query", !.draws = Min(@ + 1, MaxDraws),
                                  !.id_value = [Result(v.kind, <<>>, v.n, v.s) EXCEPT !.e = v.e]]]
  /\ UNCHANGED <<model, field_id, count_attemps, store, id_seq, lock, clock>>

\* the existence query raises
GenStoreFails(t) ==
  /\ task[t].pc = "query"
  /\ task' = [task EXCEPT ![t] = Fault(@, "StoreError")]
  /\ UNCHANGED <<model, field_id, count_attemps, store, id_seq, lock, clock>>

\* the candidate is taken: the while True draws again, in the same session and
\* the same attempt
GenCollision(t) ==
  /\ task[t].pc = "query"
  /\ IdTaken(store, task[t].id_value)
  /\ task' = [task EXCEPT ![t] = [@ EXCEPT !.pc = "session", !.conn = 1, !.id_value = RNone]]
  /\ UNCHANGED <<model, field_id, count_attemps, store, id_seq, lock, clock>>

\* the candidate is free: return id_value
GenReturn(t) ==
  /\ task[t].pc = "query"
  /\ ~IdTaken(store, task[t].id_value)
  /\ task' = [task EXCEPT ![t] = [@ EXCEPT !.pc = "close", !.conn = 1, !.ret = task[t].id_value,
                                            !.id_value = RNone]]
  /\ UNCHANGED <<model, field_id, count_attemps, store, id_seq, lock, clock>>

\* ---------------------------------------------------------------- the except block
LastAttemptOffByOne(attempt, count) == attempt = count

\* if attempt == count_attemps - 1: raise
LastAttempt(attempt, count) == attempt = count - 1

\* f"{cls.model.__tablename__}  <op>" is evaluated before handle_async is
\* called: on a class whose model is None it raises AttributeError out of the
\* except block
HandlerRaises(t) ==
  /\ task[t].pc = "except"
  /\ model = None
  /\ task' = [task EXCEPT ![t].pc = "done", ![t].out = "raised",
                          ![t].raised = Exc("AttributeError", task[t].attempt)]
  /\ UNCHANGED <<model, field_id, count_attemps, store, id_seq, lock, clock>>

\* await handle_async(...) returns its receipt; then raise on the last attempt,
\* else the next iteration
Report(t) ==
  /\ task[t].pc = "except"
  /\ model # None
  /\ task' = [task EXCEPT ![t] =
       IF LastAttempt(task[t].attempt, count_attemps)
       THEN [@ EXCEPT !.pc = "done", !.reports = @ + 1, !.out = "raised", !.raised = task[t].exc]
       ELSE [@ EXCEPT !.pc = "loop", !.reports = @ + 1, !.attempt = @ + 1]]
  /\ UNCHANGED <<model, field_id, count_attemps, store, id_seq, lock, clock>>

SinkRaisesSwallowed(t) ==
  /\ task[t].pc = "except"
  /\ model # None
  /\ task' = [task EXCEPT ![t].pc = "loop", ![t].reports = @ + 1, ![t].attempt = @ + 1,
                          ![t].raised = Exc("SinkError", task[t].attempt)]
  /\ UNCHANGED <<model, field_id, count_attemps, store, id_seq, lock, clock>>

\* await handle_async(...) itself raises (the exception file cannot be written)
SinkRaises(t) ==
  /\ task[t].pc = "except"
  /\ model # None
  /\ task' = [task EXCEPT ![t].pc = "done", ![t].reports = @ + 1, ![t].out = "raised",
                          ![t].raised = Exc("SinkError", task[t].attempt)]
  /\ UNCHANGED <<model, field_id, count_attemps, store, id_seq, lock, clock>>

\* the caller takes the outcome and is free to call again
Finish(t) ==
  /\ task[t].pc = "done"
  /\ task' = [task EXCEPT ![t] = Idle]
  /\ UNCHANGED <<model, field_id, count_attemps, store, id_seq, lock, clock>>

\* ---------------------------------------------------------------- specification

\* the retry loop around one attempt on a configured class whose sink returns
Retry(t) ==
  \/ OpenSession(t)
  \/ Close(t)
  \/ Unwind(t)
  \/ UnwindFails(t)
  \/ Report(t)
  \/ Finish(t)

\* the retry loop and the except block on any class and any sink
Loop(t) ==
  \/ Retry(t)
  \/ FallThrough(t)
  \/ HandlerRaises(t)
  \/ SinkRaises(t)

\* the body of an attempt of create
CreateAttempt(t) ==
  \/ StoreFails(t)
  \/ CloseFails(t)
  \/ ConfigurationError(t)
  \/ Insert(t)
  \/ Commit(t)
  \/ Refresh(t)
  \/ RefreshFails(t)

\* the body of an attempt of a facade method
Attempt(t) == CreateAttempt(t) \/ Execute(t)

\* the body of an attempt of generate_unique_field_id
GenAttempt(t) ==
  \/ GenConversionError(t)
  \/ GenConfigurationError(t)
  \/ GenQuery(t)
  \/ GenStoreFails(t)
  \/ GenCollision(t)
  \/ GenReturn(t)

InitConfig ==
  /\ \E c \in {<<"IncidentModel", "id">>, <<None, "id">>, <<"IncidentModel", None>>} :
       model = c[1] /\ field_id = c[2]
  /\ count_attemps \in 0 .. MaxAttempts
  /\ store = <<>>
  /\ id_seq = 0
  /\ lock = Unlocked
  /\ clock = 0

\* one caller, issuing one facade call after the other, on any configuration
Init ==
  /\ InitConfig
  /\ task = [t \in Tasks |-> IF t = 1 THEN Idle ELSE [Idle EXCEPT !.pc = "absent"]]

Next == \E t \in Tasks : Call(t) \/ Loop(t) \/ Attempt(t)

Spec == Init /\ [][Next]_vars

\* one caller generating ids over a table that creates fill
NextGen == \E t \in Tasks : CallGen(t) \/ Loop(t) \/ CreateAttempt(t) \/ GenAttempt(t)

SpecGen == Init /\ [][NextGen]_vars

\* two callers whose writes interleave at every await, on the configured
\* IncidentRepository
InitConc ==
  /\ model = "IncidentModel"
  /\ field_id = "id"
  /\ count_attemps = MaxAttempts
  /\ store = <<>>
  /\ id_seq = 0
  /\ lock = Unlocked
  /\ clock = 0
  /\ task = [t \in Tasks |-> Idle]

NextConc ==
  \E t \in Tasks :
    \/ CallConc(t)
    \/ Retry(t)
    \/ StoreFails(t)
    \/ CloseFails(t)
    \/ Execute(t)
    \/ Commit(t)
    \/ Insert(t)
    \/ Refresh(t)
    \/ RefreshFails(t)

SpecConc == InitConc /\ [][NextConc]_vars

\* ---------------------------------------------------------------- reads over any table
\* the rows a table of incidents can hold: any id, the status new or resolved,
\* one description for the first id and another for the others
TableRows ==
  {Row(i, IF i = 1 THEN "x" ELSE "a", st, "api", 0) : i \in 1 .. MaxTable, st \in {"new", "resolved"}}

\* the tables the constraints of IncidentModel admit: the ids in any order of
\* insertion, each row with the time of its insert
Tables ==
  {IF rows = <<>> THEN <<>>
   ELSE [k \in 1 .. Len(rows) |-> [rows[k] EXCEPT !.creating_date = k]] :
     rows \in {r \in UNION {[1 .. n -> TableRows] : n \in 0 .. MaxTable} : ~ConstraintViolation(r)}}

\* filters as get_all_incidents builds them: none, one, or two expressions
QueryFilters ==
  {<<>>,
   <<Filter("status", "==", "new")>>,
   <<Filter("status", "==", "new"), Filter("id", ">=", 2)>>,
   <<Filter("id", ">=", 2), Filter("id", "<=", 2)>>}

\* sort_by and sort_order: no sort, a column in either direction and either
\* case, the column get_all_incidents sorts by, a text column, no column
QuerySorts ==
  {<<None, "asc">>, <<"id", "asc">>, <<"id", "Desc">>, <<"creating_date", "desc">>,
   <<"description", "asc">>, <<"nosuch", "desc">>}

\* the reading calls: get, get_all, get_all_with_filters and
\* generate_unique_field_id
QueryCalls ==
  {<<"get", WithId(i)>> : i \in 1 .. MaxTable}
  \cup {<<"get_all", NoArgs>>}
  \cup {<<"get_all_with_filters",
          [NoArgs EXCEPT !.filters = f, !.sort_by = q[1], !.sort_order = q[2],
                                         !.limit = l, !.offset = o]>> :
          f \in QueryFilters, q \in QuerySorts, l \in {NoInt, 0, 2},
          o \in {NoInt, 0, 1, MaxTable}}
  \cup {<<"generate_unique_field_id",
          [NoArgs EXCEPT !.char_sets = cs, !.length = n, !.return_type = rt]>> :
          cs \in CharSets, n \in {1}, rt \in {"int", "str"}}

\* a reading method is called
CallQuery(t) == Enter(t, QueryCalls)

\* one caller reading any table of the configured IncidentRepository
InitQuery ==
  /\ model = "IncidentModel"
  /\ field_id = "id"
  /\ count_attemps = MaxAttempts
  /\ store \in Tables
  /\ id_seq = MaxTable
  /\ lock = Unlocked
  /\ clock = Len(store)
  /\ task = [t \in Tasks |-> IF t = 1 THEN Idle ELSE [Idle EXCEPT !.pc = "absent"]]

NextQuery ==
  \E t \in Tasks :
    \/ CallQuery(t)
    \/ Retry(t)
    \/ StoreFails(t)
    \/ CloseFails(t)
    \/ Execute(t)
    \/ GenConversionError(t)
    \/ GenQuery(t)
    \/ GenStoreFails(t)
    \/ GenCollision(t)
    \/ GenReturn(t)

SpecQuery == InitQuery /\ [][NextQuery]_vars

\* ---------------------------------------------------------------- two instance-bound writers
\* the tables two writers find: any ids, inserted in their order, every row new
PairTables ==
  {rows \in Tables : \A k \in DOMAIN rows : rows[k].status = "new" /\ (k > 1 => rows[k - 1].id < rows[k].id)}

\* instance-bound updates (of a field, of the id) and deletes of two records
PairCalls ==
  {<<"update", WithData(WithId(1), Payload({"status"}, 0, "resolved"))>>}
  \cup {<<"update", WithData(WithId(1), Payload({"id"}, i, None))>> : i \in {2, MaxTable}}
  \cup {<<"delete", WithId(i)>> : i \in {1, 2}}

\* one of two concurrent instance-bound writers calls
CallPair(t) == Enter(t, PairCalls)

InitPair ==
  /\ model = "IncidentModel"
  /\ field_id = "id"
  /\ count_attemps = MaxAttempts
  /\ store \in PairTables
  /\ id_seq = MaxTable
  /\ lock = Unlocked
  /\ clock = Len(store)
  /\ task = [t \in Tasks |-> Idle]

NextPair ==
  \E t \in Tasks :
    \/ CallPair(t)
    \/ Retry(t)
    \/ StoreFails(t)
    \/ CloseFails(t)
    \/ Execute(t)
    \/ Commit(t)

SpecPair == InitPair /\ [][NextPair]_vars

\* ---------------------------------------------------------------- two callers generating ids
\* integer ids drawn from one or two digits, and the creates that use them
GenPairCalls ==
  {<<"create", WithData(NoArgs, Payload({"id", "description", "status", "source"}, i, "new"))>> :
     i \in {1, 2}}
  \cup {<<"generate_unique_field_id",
          [NoArgs EXCEPT !.char_sets = cs, !.length = 1, !.return_type = "int"]>> :
          cs \in CharSets \ {<<>>}}

\* one of two concurrent callers asks for an id or creates a record
CallGenPair(t) == Enter(t, GenPairCalls)

\* two callers of the configured IncidentRepository whose calls interleave at
\* every await; nothing orders the existence check of one against the other
NextGenPair ==
  \E t \in Tasks :
    \/ CallGenPair(t)
    \/ Retry(t)
    \/ StoreFails(t)
    \/ CloseFails(t)
    \/ Insert(t)
    \/ Commit(t)
    \/ Refresh(t)
    \/ RefreshFails(t)
    \/ GenConversionError(t)
    \/ GenQuery(t)
    \/ GenStoreFails(t)
    \/ GenCollision(t)
    \/ GenReturn(t)

SpecGenPair == InitConc /\ [][NextGenPair]_vars

\* ---------------------------------------------------------------- every operation, and the connection pool
\* a call of each of the eight methods and of generate_unique_field_id, on
\* one record
AnyCalls ==
  {<<"create", WithData(NoArgs, Payload({"id", "description", "status", "source"}, 1, "new"))>>,
   <<"get", WithId(1)>>,
   <<"get_all", NoArgs>>,
   <<"get_all_with_filters",
     [NoArgs EXCEPT !.filters = <<Filter("status", "==", "new")>>, !.sort_by = "id",
                    !.sort_order = "desc", !.limit = 1, !.offset = 0]>>,
   <<"update_with_filters",
     WithData([NoArgs EXCEPT !.filters = <<Filter("status", "==", "new")>>],
              Payload({"status"}, 0, "resolved"))>>,
   <<"delete_with_filters", [NoArgs EXCEPT !.filters = <<Filter("status", "==", "resolved")>>]>>,
   <<"update", WithData(WithId(1), Payload({"status"}, 0, "resolved"))>>,
   <<"delete", WithId(1)>>,
   <<"generate_unique_field_id",
     [NoArgs EXCEPT !.char_sets = <<<<"1">>>>, !.length = 1, !.return_type = "int"]>>}

\* two callers of the configured IncidentRepository, each calling any of its
\* operations, interleaved at every await
NextAll ==
  \E t \in Tasks :
    \/ Enter(t, AnyCalls)
    \/ Retry(t)
    \/ StoreFails(t)
    \/ CloseFails(t)
    \/ Execute(t)
    \/ Commit(t)
    \/ Insert(t)
    \/ Refresh(t)
    \/ RefreshFails(t)
    \/ GenQuery(t)
    \/ GenStoreFails(t)
    \/ GenCollision(t)
    \/ GenReturn(t)

SpecAll == InitConc /\ [][NextAll]_vars

\* the connections checked out of the engine's pool
Held == Cardinality({t \in Tasks : task[t].conn = 1})

\* the attempt's session is at a statement and has no connection: the pool
\* hands it one when it has one to hand out; until then the caller waits
Checkout(t) ==
  /\ task[t].pc \in {"query", "refresh"} \/ (task[t].pc = "session" /\ task[t].op \in FacadeOps)
  /\ task[t].conn = 0
  /\ Held < PoolSize
  /\ task' = [task EXCEPT ![t].conn = 1]
  /\ UNCHANGED <<model, field_id, count_attemps, store, id_seq, lock, clock>>

\* no connection came free within pool_timeout: the statement raises the
\* pool's TimeoutError
PoolTimeout(t) ==
  /\ task[t].pc \in {"query", "refresh"} \/ (task[t].pc = "session" /\ task[t].op \in FacadeOps)
  /\ task[t].conn = 0
  /\ Held >= PoolSize
  /\ task' = [task EXCEPT ![t] = Fault(@, "TimeoutError")]
  /\ UNCHANGED <<model, field_id, count_attemps, store, id_seq, lock, clock>>

\* the store answers the attempt's statement, sent on the session's
\* connection, its commit or its close
Answered(t) ==
  \/ /\ task[t].conn = 1
     /\ Execute(t) \/ Insert(t) \/ Refresh(t) \/ GenCollision(t) \/ GenReturn(t)
  \/ Commit(t)
  \/ Close(t)

NextPool ==
  \E t \in Tasks :
    \/ Enter(t, AnyCalls)
    \/ OpenSession(t)
    \/ Checkout(t)
    \/ PoolTimeout(t)
    \/ GenQuery(t)
    \/ Answered(t)
    \/ Unwind(t)
    \/ Report(t)
    \/ Finish(t)

\* the event loop runs every task that can go on: the loop opens its session,
\* a wait for a connection ends with a connection or with the pool's timeout,
\* the store answers every statement (one that waits for a row is next in line
\* for it when its holder commits), the id generator draws its next
\* candidate, sessions close and the sink returns; nothing obliges a caller to
\* call
FairPool ==
  \A t \in Tasks :
    /\ WF_vars(OpenSession(t))
    /\ WF_vars(Checkout(t) \/ PoolTimeout(t))
    /\ WF_vars(GenQuery(t))
    /\ SF_vars(Answered(t))
    /\ WF_vars(Unwind(t))
    /\ WF_vars(Report(t))

\* two callers of the configured IncidentRepository sharing a pool of PoolSize
\* connections, over a store that answers every statement, commit and close:
\* an attempt fails when a constraint refuses its statement or when its wait
\* for a connection times out
SpecPool == InitConc /\ [][NextPool]_vars /\ FairPool

\* ---------------------------------------------------------------- the update_incident endpoint
\* dict(status=req.status, source=req.source, description=req.description)
UpdateRequestData(body) ==
  Dict({"status", "source", "description"},
       Row(0, body.description, body.status, body.source, 0))

\* the handler awaits a method of IncidentRepository(incident_id)
Await(k, op, arg, stage) ==
  [Idle EXCEPT !.pc = "loop", !.op = op, !.arg = arg,
               !.http = [k.http EXCEPT !.stage = stage, !.faults = @ + k.faults]]

\* the handler ends with a response
Respond(k, code, content) ==
  [k EXCEPT !.pc = "responded",
            !.http = [@ EXCEPT !.stage = "responded", !.status_code = code,
                               !.content = content, !.faults = @ + k.faults]]

\* PUT /update/{incident_id} with a body holding any subset of the three
\* fields: the handler starts with IncidentRepository(incident_id).get()
Request(t) ==
  /\ task[t].pc = "idle"
  /\ \E i \in {1, 2}, st \in {None, "resolved"}, so \in {None, "monitoring"}, d \in {None, "y"} :
       task' = [task EXCEPT ![t] =
                  Await([Idle EXCEPT !.http = [NoRequest EXCEPT !.id = i, !.body = UpdateBody(st, so, d)]],
                        "get", WithId(i), "get")]
  /\ UNCHANGED <<model, field_id, count_attemps, store, id_seq, lock, clock>>

\* if not await IncidentRepository(incident_id).get(): raise HTTPException(404)
IncidentNotFound(t) ==
  /\ task[t].pc = "done" /\ task[t].http.stage = "get"
  /\ task[t].out = "returned" /\ task[t].ret = RNone
  /\ task' = [task EXCEPT ![t] = Respond(@, 404, RNone)]
  /\ UNCHANGED <<model, field_id, count_attemps, store, id_seq, lock, clock>>

\* await IncidentRepository(incident_id).update(data=dict(...))
AwaitUpdate(t) ==
  /\ task[t].pc = "done" /\ task[t].http.stage = "get"
  /\ task[t].out = "returned" /\ task[t].ret # RNone
  /\ task' = [task EXCEPT ![t] =
                Await([@ EXCEPT !.http.found = task[t].ret], "update",
                      WithData(WithId(task[t].http.id), UpdateRequestData(task[t].http.body)),
                      "update")]
  /\ UNCHANGED <<model, field_id, count_attemps, store, id_seq, lock, clock>>

\* db_incident = await IncidentRepository(incident_id).get()
AwaitReread(t) ==
  /\ task[t].pc = "done" /\ task[t].http.stage = "update"
  /\ task[t].out = "returned"
  /\ task' = [task EXCEPT ![t] = Await(@, "get", WithId(task[t].http.id), "reread")]
  /\ UNCHANGED <<model, field_id, count_attemps, store, id_seq, lock, clock>>

\* return JSONResponse(200, IncidentUpdateResponse(id=db_incident.id, ...))
RespondUpdated(t) ==
  /\ task[t].pc = "done" /\ task[t].http.stage = "reread"
  /\ task[t].out = "returned" /\ task[t].ret.kind = "row"
  /\ task' = [task EXCEPT ![t] = Respond(@, 200, task[t].ret)]
  /\ UNCHANGED <<model, field_id, count_attemps, store, id_seq, lock, clock>>

\* an awaited call raised, or db_incident is None and db_incident.id raises
EndpointRaises(k) ==
  \/ k.out = "raised"
  \/ k.http.stage = "reread" /\ k.out = "returned" /\ k.ret = RNone

\* except Exception as ex_: handle_async(...); raise HTTPException(500)
InternalServerError(t) ==
  /\ task[t].pc = "done" /\ task[t].http.stage \in {"get", "update", "reread"}
  /\ EndpointRaises(task[t])
  /\ task' = [task EXCEPT ![t] = Respond(@, 500, RNone)]
  /\ UNCHANGED <<model, field_id, count_attemps, store, id_seq, lock, clock>>

\* the response is sent and the worker takes the next request
ResponseSent(t) ==
  /\ task[t].pc = "responded"
  /\ task' = [task EXCEPT ![t] = Idle]
  /\ UNCHANGED <<model, field_id, count_attemps, store, id_seq, lock, clock>>

\* one client of update_incident over any table of incidents
InitEndpoint ==
  /\ model = "IncidentModel"
  /\ field_id = "id"
  /\ count_attemps = MaxAttempts
  /\ store \in {rows \in Tables : Ids(rows) \subseteq 1 .. MaxId}
  /\ id_seq = MaxId
  /\ lock = Unlocked
  /\ clock = Len(store)
  /\ task = [t \in Tasks |-> IF t = 1 THEN Idle ELSE [Idle EXCEPT !.pc = "absent"]]

NextEndpoint ==
  \E t \in Tasks :
    \/ Request(t)
    \/ IncidentNotFound(t)
    \/ AwaitUpdate(t)
    \/ AwaitReread(t)
    \/ RespondUpdated(t)
    \/ InternalServerError(t)
    \/ ResponseSent(t)
    \/ OpenSession(t)
    \/ Close(t)
    \/ Unwind(t)
    \/ UnwindFails(t)
    \/ Report(t)
    \/ StoreFails(t)
    \/ CloseFails(t)
    \/ Execute(t)
    \/ Commit(t)

SpecEndpoint == InitEndpoint /\ [][NextEndpoint]_vars

\* ---------------------------------------------------------------- claims
SinkReturned(k) == k.raised.kind # "SinkError"

\* C1: retry exhaustion. A facade call never makes more than count_attemps
\* attempts; and when it has ended with every attempt failed by the store or
\* the pool (every report having returned), it has made exactly count_attemps
\* attempts and raised the exception of the last one.
RetryExhaustion ==
  \A t \in Tasks :
    LET k == task[t]
    IN /\ k.opened <= count_attemps
       /\ (k.pc = "done" /\ k.op \in FacadeOps /\ Configured(k.op)
             /\ k.fails >= 1 /\ k.succeeded = 0 /\ SinkReturned(k))
          => /\ k.opened = count_attemps
             /\ k.fails = count_attemps
             /\ k.out = "raised"
             /\ k.raised = k.exc
             /\ k.raised.attempt = count_attemps - 1
             /\ k.raised.kind = "StoreError"

RetryExhaustionWitness ==
  \E t \in Tasks :
    /\ task[t].pc = "done" /\ task[t].op = "update" /\ task[t].out = "raised"
    /\ count_attemps >= 2 /\ task[t].faults = count_attemps
    /\ task[t].raised = Exc("StoreError", count_attemps - 1)

\* C2: self-healing retry. Once attempt k of a call has succeeded, the call
\* is over: it has returned (a value of the kind its raw call gives, for create
\* the row just inserted), raised nothing, made exactly k attempts of which the
\* first k-1 failed, and makes no further attempt.
ResultKinds(op) ==
  CASE op = "create" -> {"row"}
    [] op = "get" -> {"row", "None"}
    [] op \in {"get_all", "get_all_with_filters"} -> {"list"}
    [] op \in {"update", "delete", "update_with_filters", "delete_with_filters"} -> {"rowcount"}
    [] OTHER -> {"int", "float", "str"}

SelfHealing ==
  \A t \in Tasks :
    LET k == task[t]
    IN k.succeeded >= 1
       => /\ k.pc = "done"
          /\ k.out = "returned"
          /\ k.raised = NoExc
          /\ k.opened = k.succeeded
          /\ k.fails = k.succeeded - 1
          /\ k.session = 0
          /\ k.ret.kind \in ResultKinds(k.op)
          /\ k.op = "create" => k.ret.rows = <<store[Len(store)]>>

SelfHealingWitness ==
  \E t \in Tasks :
    /\ task[t].pc = "done" /\ task[t].op = "get_all_with_filters"
    /\ task[t].succeeded = 2 /\ task[t].fails = 1 /\ task[t].out = "returned"
    /\ Len(task[t].ret.rows) = 1

\* C3: every failed attempt is reported exactly once: when a call has ended,
\* it has called the sink as many times as its attempts raised.
EveryFailureReported ==
  \A t \in Tasks : task[t].pc = "done" => task[t].reports = task[t].fails

\* C4: absence is distinguishable from failure, whatever count_attemps is: a
\* call on a configured class that has returned returns the result of an
\* attempt that succeeded (so a None from get() is the answer of a query).
ReturnsOnlyAfterSuccess ==
  \A t \in Tasks :
    (task[t].pc = "done" /\ task[t].out = "returned" /\ Configured(task[t].op))
    => task[t].succeeded >= 1

\* C5: NotFound is never retried. A get() whose identifier no row has, and
\* whose query the store did not fail, has returned None after exactly one
\* attempt, with no report and no exception.
NotFoundNotRetried ==
  \A t \in Tasks :
    LET k == task[t]
    IN (k.pc = "done" /\ k.op = "get" /\ Configured(k.op)
          /\ k.opened >= 1 /\ k.faults = 0 /\ k.arg.id \notin Ids(store))
       => /\ k.opened = 1
          /\ k.fails = 0
          /\ k.reports = 0
          /\ k.out = "returned"
          /\ k.ret = RNone
          /\ k.raised = NoExc

NotFoundNotRetriedWitness ==
  \E t \in Tasks :
    /\ task[t].pc = "done" /\ task[t].op = "get" /\ task[t].succeeded = 1
    /\ task[t].ret = RNone /\ store # <<>> /\ task[t].arg.id \notin Ids(store)

\* C6: generate_unique_field_id never returns a value that a row of the
\* table has as its id at the moment of the existence check.
GeneratedIdIsFree ==
  \A t \in Tasks :
    LET k == task[t]
    IN (k.pc = "done" /\ k.op = "generate_unique_field_id" /\ k.succeeded >= 1)
       => \A i \in DOMAIN store :
            ~(k.ret.kind \in {"int", "float"} /\ k.ret.s = <<>> /\ k.ret.e = 0
                /\ store[i].id = k.ret.n)

GeneratedIdIsFreeWitness ==
  \E t \in Tasks :
    /\ task[t].pc = "done" /\ task[t].op = "generate_unique_field_id"
    /\ task[t].succeeded >= 1 /\ task[t].ret.kind = "int"
    /\ task[t].draws >= 2 /\ task[t].fails = 0 /\ store # <<>>

\* C7: generate_unique_field_id draws at most count_attemps candidates.
DrawsWithinBudget ==
  \A t \in Tasks :
    task[t].op = "generate_unique_field_id" => task[t].draws <= count_attemps

\* C8: in generate_unique_field_id every raising iteration takes one attempt
\* and is reported, and an exception reaches the caller only after
\* count_attemps failing attempts, and then it is the last attempt's.
GenFailuresTakeTheBudget ==
  \A t \in Tasks :
    LET k == task[t]
    IN (k.pc = "done" /\ k.op = "generate_unique_field_id" /\ k.out = "raised"
          /\ SinkReturned(k))
       => /\ k.fails = count_attemps
          /\ k.reports = k.fails
          /\ k.raised = k.exc

\* C9: a ConfigurationError is handled like a store error: the call is
\* retried count_attemps times, every failed attempt is reported, and the last
\* attempt's exception reaches the caller.
ConfigurationErrorRetried ==
  \A t \in Tasks :
    LET k == task[t]
    IN (k.pc = "done" /\ k.op \in FacadeOps /\ ~Configured(k.op) /\ SinkReturned(k))
       => /\ k.opened = count_attemps
          /\ k.reports = k.fails
          /\ (k.fails >= 1 => k.out = "raised" /\ k.raised = k.exc)

\* C10: no two rows of the table have the same id, whatever the interleaving
\* of concurrent creates, updates and deletes and of their retries.
UniqueIds ==
  \A i, j \in DOMAIN store : i # j => store[i].id # store[j].id

\* a create was refused the id the sequence gave it, which a row has, and has
\* not yet closed its session, while the other caller's update of an id has
\* executed and waits for its commit
UniqueIdsWitness ==
  /\ store # <<>>
  /\ \E t, u \in Tasks :
       /\ t # u
       /\ task[t].op = "create" /\ task[t].pc = "raising" /\ task[t].conn = 1
       /\ task[t].session = 1 /\ task[t].faults = 0
       /\ id_seq \in Ids(store)
       /\ task[u].op = "update" /\ task[u].pc = "commit"

\* the rows a get_all_with_filters with these filters and nothing else returns
\* from the table as it is now
Selected(filters) ==
  raw_get_all_with_filters(store, filters, None, "asc", NoInt, NoInt).ret.rows

Unpaged(a) == a.limit = NoInt /\ a.offset = NoInt

\* C11: filter conjunction. A get_all_with_filters with two filters (and no
\* limit or offset) returns exactly the rows of the table whose id is among
\* the rows the call returns with the first filter alone and among those it
\* returns with the second alone; with an empty filter list and no sort it
\* returns every row of the table, each once.
FilterConjunction ==
  \A t \in Tasks :
    LET k == task[t]
        f == k.arg.filters
        both == IF Len(f) = 2 THEN Ids(Selected(<<f[1]>>)) \cap Ids(Selected(<<f[2]>>)) ELSE {}
    IN (k.pc = "done" /\ k.op = "get_all_with_filters" /\ k.succeeded >= 1 /\ Unpaged(k.arg))
       => /\ Len(f) = 2 => /\ Ids(k.ret.rows) = both
                           /\ Len(k.ret.rows) = Cardinality(both)
                           /\ \A p \in DOMAIN k.ret.rows : \E i \in DOMAIN store : k.ret.rows[p] = store[i]
          /\ (f = <<>> /\ k.arg.sort_by = None) => k.ret.rows \in Scans(k.op, store)

\* two filters that each select two of three rows and together select one
FilterConjunctionWitness ==
  \E t \in Tasks :
    LET k == task[t]
    IN /\ k.pc = "done" /\ k.op = "get_all_with_filters" /\ k.succeeded >= 1 /\ Unpaged(k.arg)
       /\ Len(k.arg.filters) = 2 /\ Len(k.ret.rows) = 1
       /\ Len(Selected(<<k.arg.filters[1]>>)) = 2 /\ Len(Selected(<<k.arg.filters[2]>>)) = 2

\* the indices of the rows of the table every filter of the list holds of
Hits(filters) == {i \in DOMAIN store : Matches(store[i], filters)}

\* the number of matching rows that come before row r in the requested direction
Rank(r, a) ==
  Cardinality({i \in Hits(a.filters) :
                 IF LowerIsDesc(a.sort_order)
                 THEN SortKey(store[i], a.sort_by) > SortKey(r, a.sort_by)
                 ELSE SortKey(store[i], a.sort_by) < SortKey(r, a.sort_by)})

DistinctKeys(a) ==
  \A i, j \in Hits(a.filters) :
    i # j => SortKey(store[i], a.sort_by) # SortKey(store[j], a.sort_by)

\* C12: pagination. With a column as sort field whose values differ between
\* the N matching rows, limit L and offset O, get_all_with_filters returns the
\* rows at positions [O, O+L) of the matching rows in the requested order:
\* min(L, N - O) rows (none when O >= N), the p-th of which is the matching row
\* that O + p - 1 matching rows precede; an absent limit or offset bounds nothing.
Pagination ==
  \A t \in Tasks :
    LET k == task[t]
        a == k.arg
        N == Cardinality(Hits(a.filters))
        O == IF a.offset = NoInt THEN 0 ELSE a.offset
        L == IF a.limit = NoInt THEN N ELSE a.limit
        size == IF O >= N THEN 0 ELSE Min(L, N - O)
    IN (k.pc = "done" /\ k.op = "get_all_with_filters" /\ k.succeeded >= 1
          /\ a.sort_by \in FieldNames /\ DistinctKeys(a))
       => /\ Len(k.ret.rows) = size
          /\ \A p \in DOMAIN k.ret.rows :
               /\ \E i \in Hits(a.filters) : store[i] = k.ret.rows[p]
               /\ Rank(k.ret.rows[p], a) = O + p - 1

\* descending page of two rows after the first of three, from a table that is
\* not stored in that order
PaginationWitness ==
  \E t \in Tasks :
    LET k == task[t]
    IN /\ k.pc = "done" /\ k.op = "get_all_with_filters" /\ k.succeeded >= 1
       /\ k.arg.sort_by = "id" /\ k.arg.sort_order = "Desc"
       /\ k.arg.limit = 2 /\ k.arg.offset = 1
       /\ Cardinality(Hits(k.arg.filters)) = 3
       /\ Len(k.ret.rows) = 2 /\ k.ret.rows[1].id = 2 /\ k.ret.rows[2].id = 1
       /\ store[1].id = 1

\* C13: unknown sort field. A get_all_with_filters whose sort field is not a
\* column, and whose query the store does not fail, returns after one attempt,
\* with no failure and no report, rows the same call without a sort field
\* returns: what that call gives for one of the orders in which the store can
\* hand out the table.
UnknownSortField ==
  \A t \in Tasks :
    LET k == task[t]
        a == k.arg
    IN (k.pc = "done" /\ k.op = "get_all_with_filters" /\ k.faults = 0
          /\ a.sort_by # None /\ a.sort_by \notin FieldNames)
       => /\ k.opened = 1
          /\ k.fails = 0
          /\ k.reports = 0
          /\ k.out = "returned"
          /\ k.raised = NoExc
          /\ \E scan \in Scans(k.op, store) :
               k.ret = RawCall(k.op, [a EXCEPT !.sort_by = None], scan).ret

UnknownSortFieldWitness ==
  \E t \in Tasks :
    LET k == task[t]
    IN /\ k.pc = "done" /\ k.op = "get_all_with_filters" /\ k.succeeded = 1
       /\ k.arg.sort_by = "nosuch" /\ k.arg.offset = 1 /\ k.arg.limit = 2
       /\ Len(k.ret.rows) = 2 /\ Len(k.arg.filters) = 1

\* the step in which an attempt of caller t, in one of these methods, succeeds:
\* its query is answered or, in a writing method, its statement is committed
Succeeds(t, ops) ==
  task[t].pc \in {"session", "commit"} /\ task[t].op \in ops /\ task'[t].pc = "close"

\* the step in which a call of caller t, in one of these methods, returns
Returns(t, ops) ==
  task[t].pc = "close" /\ task[t].op \in ops /\ task'[t].pc = "done"

\* row r with the payload's fields set and every other field as it was
Updated(r, data, new) ==
  \A f \in FieldNames : new[f] = IF f \in data.fields THEN data.v[f] ELSE r[f]

\* C14: filtered write scope. The step in which update_with_filters succeeds
\* sets the payload's fields in exactly the rows every filter holds of and
\* leaves the other rows as they are; the step in which delete_with_filters
\* succeeds removes exactly those rows; with an empty filter list that is every
\* row of the table.
FilteredWriteScope ==
  [][\A t \in Tasks :
       LET a == task[t].arg
       IN /\ Succeeds(t, {"update_with_filters"})
             => /\ Len(store') = Len(store)
                /\ \A i \in DOMAIN store :
                     IF Matches(store[i], a.filters)
                     THEN Updated(store[i], a.data, store'[i])
                     ELSE store'[i] = store[i]
          /\ Succeeds(t, {"delete_with_filters"})
             => store' = SelectSeq(store, LAMBDA r : ~Matches(r, a.filters))]_vars

\* an update with two filters has changed the one row both hold of, and not
\* the row only one holds of
FilteredWriteScopeWitness ==
  \E t \in Tasks :
    LET k == task[t]
    IN /\ k.pc = "done" /\ k.op = "update_with_filters" /\ k.succeeded >= 1
       /\ Len(k.arg.filters) = 2 /\ k.arg.data = Payload({"status"}, 0, "resolved")
       /\ Len(store) = 2 /\ store[1].status = "new" /\ store[2].status = "resolved"

\* C15: update/delete count. The value a successful update_with_filters or
\* delete_with_filters returns carries the number of rows every filter held of
\* in the table the successful attempt ran on, whether or not earlier attempts
\* of the call failed.
AffectedCount ==
  [][\A t \in Tasks :
       /\ Succeeds(t, {"update_with_filters", "delete_with_filters"})
          => /\ task'[t].ret.kind = "rowcount"
             /\ task'[t].ret.n =
                  Cardinality({i \in DOMAIN store : Matches(store[i], task[t].arg.filters)})
       /\ Returns(t, {"update_with_filters", "delete_with_filters"})
          => /\ task'[t].out = "returned"
             /\ task'[t].ret = task[t].ret]_vars

\* a delete that matched one of two rows, on the attempt after a failed one
AffectedCountWitness ==
  \E t \in Tasks :
    LET k == task[t]
    IN /\ k.pc = "done" /\ k.op = "delete_with_filters" /\ k.succeeded = 2 /\ k.fails = 1
       /\ k.ret = RCount(1) /\ Len(store) = 1

\* what get() of an instance bound to identifier i returns from table rows
Got(rows, i) == raw_get(rows, IdIs(i)).ret

\* the step in which update() of caller t succeeds changes the row that has
\* the bound identifier, in the payload's fields only, and no other row, and
\* get() of an instance bound to identifier i then shows the payload's values
\* and the row's other fields as they were
UpdateShownBy(t, i) ==
  LET a == task[t].arg
  IN /\ Len(store') = Len(store)
     /\ task'[t].fails = task[t].fails
     /\ \A n \in DOMAIN store :
          IF store[n].id = a.id
          THEN /\ Updated(store[n], a.data, store'[n])
               /\ Got(store', i).kind = "row"
               /\ Updated(store[n], a.data, Got(store', i).rows[1])
          ELSE store'[n] = store[n]
     /\ a.id \notin Ids(store) => store' = store

\* C16 as stated: update(fields) changes only the row with the bound
\* identifier and only the supplied fields, and get() of the same instance then
\* shows the supplied values and the other fields unchanged; without such a row
\* the table is unchanged and nothing is raised.
InstanceUpdate ==
  [][\A t \in Tasks : Succeeds(t, {"update"}) => UpdateShownBy(t, task[t].arg.id)]_vars

\* C16: update(fields) changes only the row with the bound identifier and
\* only the supplied fields, and get() bound to the identifier that row has after
\* the update (the supplied one when the fields carry the identifying field, the
\* bound one otherwise) shows the supplied values and the other fields unchanged;
\* without such a row the table is unchanged and nothing is raised.
InstanceUpdateByCurrentId ==
  [][\A t \in Tasks :
       Succeeds(t, {"update"})
       => UpdateShownBy(t, IF "id" \in task[t].arg.data.fields
                           THEN task[t].arg.data.v.id ELSE task[t].arg.id)]_vars

\* an update has moved a row to another identifier: the bound identifier is
\* gone from the table and the supplied one is there
InstanceUpdateWitness ==
  \E t \in Tasks :
    LET k == task[t]
    IN /\ k.pc = "done" /\ k.op = "update" /\ k.succeeded >= 1 /\ k.ret = RCount(1)
       /\ "id" \in k.arg.data.fields /\ k.arg.data.v.id # k.arg.id
       /\ k.arg.data.v.id \in Ids(store) /\ k.arg.id \notin Ids(store)

\* the step in which delete() of caller t succeeds removes the row with the
\* bound identifier and no other, and get() then returns None
DeleteRemoves(t) ==
  /\ store' = SelectSeq(store, LAMBDA r : r.id # task[t].arg.id)
  /\ Got(store', task[t].arg.id) = RNone
  /\ task'[t].fails = task[t].fails

\* the step of caller t is the commit of a create's insert
InsertStep(t) ==
  task[t].op = "create" /\ task[t].pc = "commit" /\ task'[t].pc = "refresh"

\* the step of caller t is an update whose payload sets the identifying field
IdUpdateStep(t) ==
  Succeeds(t, {"update", "update_with_filters"}) /\ "id" \in task[t].arg.data.fields

\* C17 as stated: delete() removes exactly the row with the bound identifier,
\* and an identifier no row has is absent in every later state until a create
\* brings it in.
InstanceDelete ==
  [][/\ \A t \in Tasks : Succeeds(t, {"delete"}) => DeleteRemoves(t)
     /\ \A i \in Ids(store') \ Ids(store) : \E t \in Tasks : InsertStep(t)]_vars

\* C17: delete() removes exactly the row with the bound identifier, and an
\* identifier no row has is absent in every later state until a create, or an
\* update that sets the identifying field, brings it in.
InstanceDeleteUntilWritten ==
  [][/\ \A t \in Tasks : Succeeds(t, {"delete"}) => DeleteRemoves(t)
     /\ \A i \in Ids(store') \ Ids(store) :
          \E t \in Tasks : InsertStep(t) \/ IdUpdateStep(t)]_vars

\* a delete has removed one of two rows
InstanceDeleteWitness ==
  \E t \in Tasks :
    LET k == task[t]
    IN /\ k.pc = "done" /\ k.op = "delete" /\ k.succeeded >= 1 /\ k.ret = RCount(1)
       /\ Len(store) = 1 /\ k.arg.id \notin Ids(store)

\* C18: create/get round trip. A create without an id that has succeeded has
\* returned a row whose id is the value the store's sequence handed out, which
\* no other row has, and whose supplied fields have the supplied values; get()
\* bound to that id returns that row.
CreateGetRoundTrip ==
  \A t \in Tasks :
    LET k == task[t]
    IN (k.pc = "done" /\ k.op = "create" /\ k.succeeded >= 1 /\ "id" \notin k.arg.data.fields)
       => /\ k.ret.kind = "row"
          /\ k.ret.rows[1].id = id_seq
          /\ Cardinality({n \in DOMAIN store : store[n].id = k.ret.rows[1].id}) = 1
          /\ \A f \in k.arg.data.fields : k.ret.rows[1][f] = k.arg.data.v[f]
          /\ Got(store, k.ret.rows[1].id) = ROne(k.ret.rows[1])

\* the second row of the table was created without an id on a second attempt
CreateGetRoundTripWitness ==
  \E t \in Tasks :
    LET k == task[t]
    IN /\ k.pc = "done" /\ k.op = "create" /\ k.succeeded = 2 /\ "id" \notin k.arg.data.fields
       /\ Len(store) = 2 /\ k.ret.rows[1] = store[2] /\ k.ret.rows[1].status = "new"

ReadOps == {"get", "get_all", "get_all_with_filters", "generate_unique_field_id"}

\* C19: reads are read-only. No step of get, get_all, get_all_with_filters
\* or generate_unique_field_id, failed attempts included, changes the table or
\* its sequence; and what a get() returns is what a get() of the same identifier
\* returns from the table it leaves behind.
ReadsAreReadOnly ==
  [][\A t \in Tasks :
       (task[t] # task'[t] /\ (task[t].op \in ReadOps \/ task'[t].op \in ReadOps))
       => /\ store' = store
          /\ id_seq' = id_seq
          /\ Succeeds(t, {"get"}) => task'[t].ret = Got(store', task[t].arg.id)]_vars

\* a get() has returned a row on its second attempt
ReadsAreReadOnlyWitness ==
  \E t \in Tasks :
    LET k == task[t]
    IN /\ k.pc = "done" /\ k.op = "get" /\ k.succeeded = 2 /\ k.fails = 1
       /\ k.ret.kind = "row" /\ Len(store) >= 2

\* C20: session release. A caller holds a session exactly from the opening of
\* an attempt to the exit of its `async with`, whether the body returned or
\* raised: none in the except block (before the failure is reported), none
\* between attempts, none once the call has returned or raised, and never more
\* than one; every session opened has been closed by a failure or the return.
SessionReleased ==
  \A t \in Tasks :
    LET k == task[t]
    IN /\ k.session \in {0, 1}
       /\ k.session = 1 <=> k.pc \in {"session", "query", "commit", "refresh", "close", "raising"}
       /\ k.opened = k.fails + k.session + (IF k.succeeded >= 1 THEN 1 ELSE 0)

\* the second attempt of a call has failed and is about to be reported
SessionReleasedWitness ==
  \E t \in Tasks :
    /\ task[t].pc = "except" /\ task[t].opened = 2 /\ task[t].session = 0
    /\ task[t].reports = 1

\* C21: session freshness. A session serves one attempt (every session a
\* call has opened is held now or was closed by that attempt's failure or
\* return), and in generate_unique_field_id every candidate that has been drawn
\* and checked had a session opened for it, so that a call has drawn no more
\* candidates than it has opened sessions.
SessionPerDraw ==
  \A t \in Tasks :
    LET k == task[t]
    IN /\ k.opened = k.fails + k.session + (IF k.succeeded >= 1 THEN 1 ELSE 0)
       /\ k.op = "generate_unique_field_id" => k.draws <= k.opened

\* row r carries the payload's values
Carries(r, data) == \A f \in data.fields : r[f] = data.v[f]

\* C22: commit before return. When a write has returned, the table every
\* later session reads holds its change: the row a create returned; the
\* payload's values in the row an update matched (under the identifier it now
\* has) and in as many rows as an update_with_filters counted; no row with the
\* identifier a delete was bound to; no row matching the filters of a
\* delete_with_filters.
CommittedBeforeReturn ==
  \A t \in Tasks :
    LET k == task[t]
        a == k.arg
        cur == IF "id" \in a.data.fields THEN a.data.v.id ELSE a.id
    IN (k.pc = "done" /\ k.succeeded >= 1)
       => CASE k.op = "create" -> Got(store, k.ret.rows[1].id) = ROne(k.ret.rows[1])
            [] k.op = "update" ->
                 k.ret.n >= 1 => \E n \in DOMAIN store : store[n].id = cur /\ Carries(store[n], a.data)
            [] k.op = "update_with_filters" ->
                 Cardinality({n \in DOMAIN store : Carries(store[n], a.data)}) >= k.ret.n
            [] k.op = "delete" -> a.id \notin Ids(store)
            [] k.op = "delete_with_filters" -> Hits(a.filters) = {}
            [] OTHER -> TRUE

\* an update of the status of one of two rows has returned on its second
\* attempt and the table holds the new status
CommittedBeforeReturnWitness ==
  \E t \in Tasks :
    LET k == task[t]
    IN /\ k.pc = "done" /\ k.op = "update" /\ k.succeeded = 2 /\ k.ret = RCount(1)
       /\ k.arg.data = Payload({"status"}, 0, "resolved")
       /\ Len(store) = 2
       /\ \E n \in DOMAIN store : store[n].id = k.arg.id /\ store[n].status = "resolved"

\* caller u is inside an instance-bound update or delete that is not committed
InFlightWrite(u) ==
  task[u].op \in {"update", "delete"} /\ task[u].pc \in {"loop", "session", "commit", "raising", "except"}

\* the write in flight of caller u, made on table rows: the statement it has
\* waiting for its commit, or else the one it is about to execute
InFlight(u, rows) ==
  IF task[u].pc = "commit"
  THEN Outcome("none", Written(rows, task[u].write.rows), task[u].ret)
  ELSE RawCall(task[u].op, task[u].arg, rows)

\* the step of caller t is the statement of an instance-bound update or delete
Executes(t) ==
  task[t].pc = "session" /\ task[t].op \in {"update", "delete"} /\ task'[t].pc = "commit"

\* the statement caller t executes in this step gives the same answer and
\* changes the same rows when the write in flight of caller u is made first
Unmoved(t, u) ==
  LET swapped == RawCall(task[t].op, task[t].arg, InFlight(u, store).store)
  IN /\ swapped.raised = "none"
     /\ swapped.ret = task'[t].ret
     /\ Changes(InFlight(u, store).store, swapped.store) = task'[t].write.rows

\* the write caller t commits in this step and the write in flight of caller u
\* give the same table, and u the same answer, in either order
Commutes(t, u) ==
  LET first == InFlight(u, store)
      second == InFlight(u, store')
  IN /\ second.raised = first.raised
     /\ second.ret = first.ret
     /\ Written(first.store, task[t].write.rows) = second.store

\* C23 as stated: two concurrent instance-bound update or delete calls bound
\* to different identifiers commute: whenever one of them executes its
\* statement or commits while the other is in flight, its answer and the
\* other's are the same, and so is the table, whichever write comes first.
IndependentWritersCommute ==
  [][\A t, u \in Tasks :
       (t # u /\ InFlightWrite(u) /\ task[t].arg.id # task[u].arg.id)
       => /\ Executes(t) => Unmoved(t, u)
          /\ Succeeds(t, {"update", "delete"}) => Commutes(t, u)]_vars

\* the identifiers a call names: the one it is bound to and the one its data
\* gives the record
Named(k) ==
  {k.arg.id} \cup (IF "id" \in k.arg.data.fields THEN {k.arg.data.v.id} ELSE {})

\* C23: two concurrent instance-bound update or delete calls that name no
\* identifier in common (each is bound to an identifier the other neither is
\* bound to nor gives its record, and they give their records different
\* identifiers) commute: whenever one of them executes its statement or commits
\* while the other is in flight, its answer and the other's are the same, and
\* so is the table, whichever write comes first.
DisjointWritersCommute ==
  [][\A t, u \in Tasks :
       (t # u /\ InFlightWrite(u) /\ Named(task[t]) \cap Named(task[u]) = {})
       => /\ Executes(t) => Unmoved(t, u)
          /\ Succeeds(t, {"update", "delete"}) => Commutes(t, u)]_vars

\* an update of one row's status and a delete of the other row, in flight
\* together, have both returned having found their rows
IndependentWritersWitness ==
  \E t, u \in Tasks :
    /\ task[t].pc = "done" /\ task[t].op = "update" /\ task[t].ret = RCount(1)
    /\ task[t].arg.data = Payload({"status"}, 0, "resolved")
    /\ task[u].pc = "done" /\ task[u].op = "delete" /\ task[u].ret = RCount(1)
    /\ task[t].arg.id # task[u].arg.id /\ task[t].succeeded = 2
    /\ Len(store) = 1 /\ store[1].status = "resolved"

\* C24: the lock declared on IncidentRepository is never acquired: it is
\* unlocked in every reachable state, whatever the concurrent operations do,
\* so that none waits for it and two operations on the same record run their
\* attempts side by side.
LockNeverHeld == lock = Unlocked

\* an update and a delete bound to the same identifier are both inside an
\* attempt, each with its session open, and the lock is free
LockNeverHeldWitness ==
  /\ lock = Unlocked
  /\ \E t, u \in Tasks :
       /\ task[t].op = "update" /\ task[u].op = "delete"
       /\ task[t].arg.id = task[u].arg.id
       /\ task[t].pc = "session" /\ task[u].pc = "session"
       /\ task[t].arg.id \in Ids(store)

\* C25: create is retry-safe. A create that has returned a row has inserted
\* exactly one row, and a create that has raised has inserted none, whichever
\* step of an attempt failed.
CreateInsertsOnce ==
  \A t \in Tasks :
    LET k == task[t]
    IN (k.pc = "done" /\ k.op = "create" /\ Configured(k.op))
       => /\ k.succeeded >= 1 => k.inserted = 1
          /\ k.out = "raised" => k.inserted = 0

\* the caller holds an id that generate_unique_field_id returned to it
HoldsGenerated(k) ==
  /\ k.pc = "done" /\ k.op = "generate_unique_field_id"
  /\ k.out = "returned" /\ k.succeeded >= 1 /\ k.ret.kind = "int"

\* C26: concurrent id generation. While a caller holds an id that
\* generate_unique_field_id returned to it (it has not created its record
\* yet), no other caller holds the same id and no row of the table has it.
GeneratedIdReserved ==
  \A t \in Tasks :
    HoldsGenerated(task[t])
    => /\ task[t].ret.n \notin Ids(store)
       /\ \A u \in Tasks \ {t} : ~(HoldsGenerated(task[u]) /\ task[u].ret = task[t].ret)

\* C27: failed attempts are atomic. Every step of a call of update, delete,
\* update_with_filters or delete_with_filters other than the step in which an
\* attempt succeeds leaves the table exactly as it was: an attempt that raises
\* writes nothing, and neither do the except block and the next iteration. A
\* call whose attempts all failed has therefore raised over the table it found.
FailedAttemptsAtomic ==
  [][\A t \in Tasks :
       (task[t].op \in StoredRowWrites /\ ~Succeeds(t, StoredRowWrites))
       => store' = store]_vars

\* update_with_filters has raised after count_attemps attempts that the
\* table's constraints refused, over a table of two rows
FailedAttemptsAtomicWitness ==
  \E t \in Tasks :
    LET k == task[t]
    IN /\ k.pc = "done" /\ k.op = "update_with_filters" /\ k.out = "raised"
       /\ k.raised.kind = "StoreError"
       /\ count_attemps >= 2 /\ k.fails = count_attemps /\ k.faults = 0
       /\ k.succeeded = 0
       /\ "id" \in k.arg.data.fields
       /\ Len(store) = 2 /\ store[1].id # store[2].id

\* C29: sink failure aborts the retry loop. When handle_async itself raises
\* while a failed attempt is being reported, the call ends there: it has raised
\* the sink's exception and not the attempt's, it has opened no session after
\* the failed attempt, and no attempt of it succeeded, however much of the
\* budget was left.
SinkFailureAborts ==
  \A t \in Tasks :
    LET k == task[t]
    IN (k.pc = "done" /\ k.raised.kind = "SinkError")
       => /\ k.out = "raised"
          /\ k.raised # k.exc
          /\ k.exc.attempt = k.raised.attempt
          /\ k.opened = k.raised.attempt + 1
          /\ k.fails = k.opened
          /\ k.reports = k.opened
          /\ k.succeeded = 0
          /\ k.session = 0

\* the sink raised on the first of at least two attempts, reporting a failure
\* of the store
SinkFailureAbortsWitness ==
  \E t \in Tasks :
    LET k == task[t]
    IN /\ k.pc = "done" /\ k.out = "raised" /\ k.raised = Exc("SinkError", 0)
       /\ k.exc = Exc("StoreError", 0)
       /\ k.op = "create" /\ count_attemps >= 2 /\ k.opened = 1

\* record r with the fields a body supplies set and the fields it omits kept
Applied(r, body) ==
  Row(r.id,
      IF body.description = None THEN r.description ELSE body.description,
      IF body.status = None THEN r.status ELSE body.status,
      IF body.source = None THEN r.source ELSE body.source,
      r.creating_date)

\* C30: partial update at the HTTP boundary. update_incident, called for an
\* incident that exists while the store fails no statement, answers 200 with
\* the record as the body changes it: the supplied fields set, the omitted
\* ones as they were; that record is the one stored, and no stored record has
\* an absent value in a non-nullable field.
PartialUpdateApplied ==
  \A t \in Tasks :
    LET k == task[t]
        h == k.http
    IN (k.pc = "responded" /\ h.found.kind = "row" /\ h.faults = 0)
       => /\ h.status_code = 200
          /\ h.content = ROne(Applied(h.found.rows[1], h.body))
          /\ Got(store, h.id) = h.content
          /\ ~NotNullViolation(store)

\* caller t is inside a call that has neither returned nor raised
InCall(t) ==
  task[t].pc \in {"loop", "session", "query", "commit", "refresh", "close", "raising", "except"}

\* C28: no pool deadlock. With callers competing for a pool of PoolSize
\* connections, under fair scheduling and a store that answers, every call of
\* an operation of the facade, generate_unique_field_id included, eventually
\* returns or raises.
EveryCallEnds == \A t \in Tasks : InCall(t) ~> task[t].pc = "done"

====
